---- MODULE Spec2Model ----
(***************************************************************************)
(* MemoFlow: hash index (core/hash_manager.py), taxonomy                   *)
(* (models/schema.py, core/schema_manager.py), note store                  *)
(* (core/file_manager.py) and version log (core/git_engine.py).            *)
(*                                                                         *)
(* Representation.  Decimal values (category ranges, item values) are      *)
(* integers in thousandths: 10.001 is 10001.  A location code              *)
(* "HANK-10.001" is the record [prefix |-> "HANK", area |-> <<1,0>>,       *)
(* item |-> <<0,0,1>>] of its three regex groups, the digit strings kept   *)
(* as digit sequences so that "00.01" and "0.01" stay different strings.   *)
(* A hash is a sequence of hex digits, a title a sequence of characters.   *)
(* A path is <<directory, file name>>; the file name of a note is          *)
(* <<hash, sanitized title>> for "{hash}_{safe_title}.md".                 *)
(* Timestamps written with datetime.now() (created_at, last_updated) are   *)
(* a creation ordinal and are left out of index entries.                   *)
(***************************************************************************)
EXTENDS Integers, Sequences, FiniteSets, TLC

(***************************************************************************)
(* Bounds of the model                                                     *)
(***************************************************************************)
MaxCalls == 3       \* calls made on the store in one behaviour
NumUuids == 2       \* number of different values uuid4() can draw
MaxTags == 2        \* tags of a note
MaxFiled == 99      \* notes filed in one category
MaxInbox == 98      \* notes a filled inbox holds before the first call
MaxCommits == 2     \* commits in a log parse_timeline reads
MaxDirsAtStart == 1 \* directories that exist before the first command
MaxRuns == 2        \* calls made by the processes that run side by side

(***************************************************************************)
(* Program constants                                                       *)
(***************************************************************************)
HashLen == 6        \* hash_manager.py:49   short_hash = full_uuid[:6]
MaxHashLen == 12    \* hash_manager.py:53   max_length = 12
MaxAttempts == 100  \* hash_manager.py:55   max_attempts = 100
MaxSafeTitle == 50  \* file_manager.py:346  safe[:50]

None == "None"      \* Python's None

(***************************************************************************)
(* Small helpers                                                           *)
(***************************************************************************)
RECURSIVE SeqToNat(_)
SeqToNat(ds) ==
    IF ds = <<>> THEN 0
    ELSE SeqToNat(SubSeq(ds, 1, Len(ds) - 1)) * 10 + ds[Len(ds)]

RECURSIVE NatToSeq(_)
NatToSeq(n) ==
    IF n < 10 THEN <<n>> ELSE Append(NatToSeq(n \div 10), n % 10)

IsPrefix(p, s) ==
    /\ Len(p) <= Len(s)
    /\ SubSeq(s, 1, Len(p)) = p

Put(f, k, v) == [x \in (DOMAIN f) \cup {k} |-> IF x = k THEN v ELSE f[x]]

Drop(f, k) == [x \in (DOMAIN f) \ {k} |-> f[x]]

(***************************************************************************)
(* Taxonomy: models/schema.py                                              *)
(***************************************************************************)
\* Schema.default(): prefix HANK, areas 10 and 20 with two categories each
user_prefix == "HANK"

areas ==
    << [id |-> 10, categories |->
            << [id |-> 1, range |-> <<10001, 10099>>],
               [id |-> 2, range |-> <<10100, 10199>>] >>],
       [id |-> 20, categories |->
            << [id |-> 1, range |-> <<20001, 20099>>],
               [id |-> 2, range |-> <<20100, 20199>>] >>] >>

\* the strings [A-Z]+ among the prefixes the model uses
UpperAlpha == {"HANK", "ZZ"}

MkCode(prefix, area, item) == [prefix |-> prefix, area |-> area, item |-> item]

\* what follows the item digits in the string: nothing for the codes the
\* program builds; an input string may carry a tail
TailOf(code) == IF "tail" \in DOMAIN code THEN code.tail ELSE ""

\* re.match(r'^([A-Z]+)-(\d+)\.(\d{2,3})$', path): $ matches at the end of
\* the string and also just before a newline that ends the string
MatchesCodeFormat(code) ==
    /\ code.prefix \in UpperAlpha
    /\ Len(code.area) >= 1
    /\ Len(code.item) \in {2, 3}
    /\ TailOf(code) \in {"", "\n"}

\* float(f"{area_id_str}.{item_id_str}"), in thousandths
ItemValue(code) ==
    SeqToNat(code.area) * 1000
        + (IF Len(code.item) = 2 THEN SeqToNat(code.item) * 10
           ELSE SeqToNat(code.item))

\* Category.contains
contains(category, item_id) ==
    /\ category.range[1] <= item_id
    /\ item_id <= category.range[2]

\* the schema a repository starts with
DefaultSchema == [user_prefix |-> user_prefix, areas |-> areas]

\* whether Schema.get_area finds an area (it returns None otherwise)
Schema_has_area(schema, area_id) ==
    \E i \in 1..Len(schema.areas) : schema.areas[i].id = area_id

\* Schema.get_area: the first area with that id
Schema_get_area(schema, area_id) ==
    schema.areas[CHOOSE i \in 1..Len(schema.areas) :
                    /\ schema.areas[i].id = area_id
                    /\ \A j \in 1..(i - 1) : schema.areas[j].id # area_id]

\* Schema.validate_path
Schema_validate_path(schema, code) ==
    IF ~MatchesCodeFormat(code) THEN FALSE
    ELSE IF code.prefix # schema.user_prefix THEN FALSE
    ELSE IF ~Schema_has_area(schema, SeqToNat(code.area)) THEN FALSE
    ELSE LET area == Schema_get_area(schema, SeqToNat(code.area))
         IN  \E i \in 1..Len(area.categories) :
                contains(area.categories[i], ItemValue(code))

\* the same on the default schema
has_area(area_id) == Schema_has_area(DefaultSchema, area_id)

get_area(area_id) == Schema_get_area(DefaultSchema, area_id)

validate_path(code) == Schema_validate_path(DefaultSchema, code)

\* Schema.get_directory_path: "{area}-{area+10}" / "{start}-{end}" of the
\* first category of the area that contains the value; <<>> stands for the
\* ValueError.  For the ranges of the default schema the float test
\* range % 0.01 >= 0.001 is true, so the bounds print with three decimals,
\* which the thousandths hold exactly.
Schema_get_directory_path_last_hit(schema, code) ==
    IF ~MatchesCodeFormat(code) THEN <<>>
    ELSE IF ~Schema_has_area(schema, SeqToNat(code.area)) THEN <<>>
    ELSE LET area == Schema_get_area(schema, SeqToNat(code.area))
             hits == {i \in 1..Len(area.categories) :
                        contains(area.categories[i], ItemValue(code))}
         IN  IF hits = {} THEN <<>>
             ELSE LET i == CHOOSE i \in hits : \A j \in hits : i >= j
                  IN  <<area.id, area.id + 10,
                        area.categories[i].range[1],
                        area.categories[i].range[2]>>

Schema_get_directory_path(schema, code) ==
    IF ~MatchesCodeFormat(code) THEN <<>>
    ELSE IF ~Schema_has_area(schema, SeqToNat(code.area)) THEN <<>>
    ELSE LET area == Schema_get_area(schema, SeqToNat(code.area))
             hits == {i \in 1..Len(area.categories) :
                        contains(area.categories[i], ItemValue(code))}
         IN  IF hits = {} THEN <<>>
             ELSE LET i == CHOOSE i \in hits : \A j \in hits : i <= j
                  IN  <<area.id, area.id + 10,
                        area.categories[i].range[1],
                        area.categories[i].range[2]>>

get_directory_path(code) == Schema_get_directory_path(DefaultSchema, code)

\* SchemaManager.generate_temp_id: f"{prefix}-00.{counter:02d}"
generate_temp_id(counter) ==
    MkCode(user_prefix, <<0, 0>>,
           IF counter < 10 THEN <<0, counter>> ELSE NatToSeq(counter))

\* Area.get_category: whether the area has a category with that id, and
\* the first such category
has_category(area, category_id) ==
    \E i \in 1..Len(area.categories) : area.categories[i].id = category_id

get_category(area, category_id) ==
    area.categories[CHOOSE i \in 1..Len(area.categories) :
                        /\ area.categories[i].id = category_id
                        /\ \A j \in 1..(i - 1) :
                                area.categories[j].id # category_id]

\* the decimal digits of n, zero-padded to width
RECURSIVE Digits(_, _)
Digits(n, width) ==
    IF width = 0 THEN <<>> ELSE Append(Digits(n \div 10, width - 1), n % 10)

\* utils/jd.py format_jd_id: f"{prefix}-{item_id}" with two decimals when
\* the third is zero, else three (area_id is not used)
format_jd_id(prefix, area_id, item_id) ==
    IF item_id % 10 = 0
    THEN MkCode(prefix, NatToSeq(item_id \div 1000),
                Digits((item_id % 1000) \div 10, 2))
    ELSE MkCode(prefix, NatToSeq(item_id \div 1000),
                Digits(item_id % 1000, 3))

\* int((range_end - range_start) / step) as binary floating point gives it
\* for the ranges of the default schema: the quotients are
\* 98.00000000000075, 9.90000000000002, 97.99999999999898 and
\* 9.90000000000002; for the ranges (10.001, 10.150), (10.050, 10.099) and
\* (20.001, 20.050) they are 149.0000000000009, 4.899999999999949 and
\* 48.99999999999949
SpanSteps(range) ==
    CASE range = <<10001, 10099>> -> 98
      [] range = <<10100, 10199>> -> 9
      [] range = <<20001, 20099>> -> 97
      [] range = <<20100, 20199>> -> 9
      [] range = <<10001, 10150>> -> 149
      [] range = <<10050, 10099>> -> 4
      [] range = <<20001, 20050>> -> 48

\* the while loop of generate_next_id: current_rounded after `iterations`
\* steps, returned when it is not in used_ids; NoCode stands for None
RECURSIVE NextIdLoop(_, _, _, _, _, _)
NextIdLoop(current, range_end, step, iterations, max_iterations, used_ids) ==
    IF current <= range_end /\ iterations < max_iterations
    THEN IF current \notin used_ids
         THEN format_jd_id(user_prefix, 0, current)
         ELSE NextIdLoop(current + step, range_end, step, iterations + 1,
                         max_iterations, used_ids)
    ELSE MkCode("", <<>>, <<>>)

(***************************************************************************)
(* HashIndex: core/hash_manager.py                                         *)
(***************************************************************************)
\* the first MaxHashLen hex digits of the k-th value uuid4().hex can take
Uuid(k) == [i \in 1..MaxHashLen |-> IF i <= HashLen THEN k ELSE 0]

Uuids == {Uuid(k) : k \in 1..NumUuids}

\* the while loop of generate_hash; redraw is what every later uuid4() yields
RECURSIVE GenLoop(_, _, _, _, _, _)
GenLoop(keys, full_uuid, short_hash, length, attempts, redraw) ==
    IF short_hash \in keys /\ attempts < MaxAttempts
    THEN IF length < MaxHashLen
         THEN GenLoop(keys, full_uuid, SubSeq(full_uuid, 1, length + 1),
                      length + 1, attempts + 1, redraw)
         ELSE GenLoop(keys, redraw, SubSeq(redraw, 1, HashLen),
                      HashLen, attempts + 1, redraw)
    ELSE short_hash

\* a loop body that does not count its attempts
gen_iteration_uncounted(loop, redraw) ==
    IF loop.length < MaxHashLen
    THEN [loop EXCEPT !.length = @ + 1,
                      !.short_hash = SubSeq(loop.full_uuid, 1, loop.length + 1)]
    ELSE [loop EXCEPT !.full_uuid = redraw,
                      !.short_hash = SubSeq(redraw, 1, HashLen),
                      !.length = HashLen]

\* one iteration of the while loop of generate_hash on the loop variables;
\* redraw is what uuid4() yields in this iteration if it is called
gen_iteration(loop, redraw) ==
    IF loop.length < MaxHashLen
    THEN [loop EXCEPT !.attempts = @ + 1,
                      !.length = @ + 1,
                      !.short_hash = SubSeq(loop.full_uuid, 1, loop.length + 1)]
    ELSE [loop EXCEPT !.attempts = @ + 1,
                      !.full_uuid = redraw,
                      !.short_hash = SubSeq(redraw, 1, HashLen),
                      !.length = HashLen]

\* generate_hash without the collision loop
generate_hash_unchecked(keys, full_uuid, redraw) ==
    [raised |-> FALSE, hash |-> SubSeq(full_uuid, 1, HashLen)]

\* HashManager.generate_hash: the hash, or raised for the ValueError
generate_hash(keys, full_uuid, redraw) ==
    LET short_hash == GenLoop(keys, full_uuid, SubSeq(full_uuid, 1, HashLen),
                              HashLen, 0, redraw)
    IN  [raised |-> short_hash \in keys, hash |-> short_hash]

\* a register that saves the new entry alone
register_alone(idx, hash_id, file_path, jd_id) ==
    hash_id :> [path |-> file_path, id |-> jd_id]

\* HashManager.register: insert or overwrite the entry (and save)
register(idx, hash_id, file_path, jd_id) ==
    Put(idx, hash_id, [path |-> file_path, id |-> jd_id])

\* HashManager.resolve: the keys that start with partial_hash; the method
\* returns their paths and raises FileNotFoundError when there is none
resolve(idx, partial_hash) ==
    {h \in DOMAIN idx : IsPrefix(partial_hash, h)}

\* no code: None where a code is optional
NoCode == MkCode("", <<>>, <<>>)

\* an update that stores the code it is given, also when it is given none
update_path_any_code(idx, hash_id, new_path, new_jd_id) ==
    [idx EXCEPT ![hash_id] = [path |-> new_path, id |-> new_jd_id]]

\* HashManager.update_path on a key of the index: the path is replaced, the
\* code only if new_jd_id is given (and the index is saved)
update_path(idx, hash_id, new_path, new_jd_id) ==
    [idx EXCEPT ![hash_id] =
        [path |-> new_path,
         id |-> IF new_jd_id # NoCode THEN new_jd_id ELSE @.id]]

\* HashManager.update_path on any hash: the ValueError for a hash that is
\* no key comes before anything is written
update_path_call(idx, hash_id, new_path, new_jd_id) ==
    IF hash_id \notin DOMAIN idx
    THEN [raised |-> TRUE, index |-> idx, saved |-> idx]
    ELSE LET idx2 == update_path(idx, hash_id, new_path, new_jd_id)
         IN  [raised |-> FALSE, index |-> idx2, saved |-> idx2]

\* HashManager.rebuild_index: the index is emptied and every *.md file that
\* Memo.from_file parses is registered under its stored uuid, in the order
\* rglob yields the files; scanned[k] is the file scanned last among those
\* that store k, whose entry is the one that stays.  parsed is the set of
\* [uuid, id, file_path] of the files that parse.
rebuild_index(parsed, scanned) ==
    [k \in {m.uuid : m \in parsed} |->
        [path |-> scanned[k].file_path, id |-> scanned[k].id]]

(***************************************************************************)
(* Note files: models/memo.py, FileManager._sanitize_filename              *)
(***************************************************************************)
Inbox == <<"00-Inbox">>

IndexPath == << <<".mf">>, <<"hash_index.json">> >>

valid_types == {"meeting", "note", "task", "email"}

required_fields == {"uuid", "id", "title", "status", "created_at"}

\* \w among the characters of the model
WordChars ==
    {"a", "b", "c", "d", "e", "f", "g", "h", "i", "k", "l", "m", "n", "o",
     "p", "r", "s", "t", "u", "w", "x", "y", "_",
     "0", "1", "2", "3", "4", "5", "6", "7", "8", "9"}
SpaceChars == {" "}               \* \s
Hyphen == "-"

\* re.sub(r'[^\w\s-]', '', title)
RECURSIVE StripIllegal(_)
StripIllegal(t) ==
    IF t = <<>> THEN <<>>
    ELSE IF Head(t) \in WordChars \cup SpaceChars \cup {Hyphen}
         THEN <<Head(t)>> \o StripIllegal(Tail(t))
         ELSE StripIllegal(Tail(t))

\* re.sub(r'[-\s]+', '-', safe)
RECURSIVE Collapse(_)
Collapse(t) ==
    IF t = <<>> THEN <<>>
    ELSE IF Head(t) \in SpaceChars \cup {Hyphen}
         THEN IF Len(t) > 1 /\ t[2] \in SpaceChars \cup {Hyphen}
              THEN Collapse(Tail(t))
              ELSE <<Hyphen>> \o Collapse(Tail(t))
         ELSE <<Head(t)>> \o Collapse(Tail(t))

\* FileManager._sanitize_filename
sanitize_filename(title) ==
    LET safe == Collapse(StripIllegal(title))
    IN  IF Len(safe) > MaxSafeTitle THEN SubSeq(safe, 1, MaxSafeTitle) ELSE safe

\* the dataclass Memo; due_date defaults to None
Memo(uuid, id, type, title, status, created_at, tags, content) ==
    [uuid |-> uuid, id |-> id, type |-> type, title |-> title,
     status |-> status, created_at |-> created_at, due_date |-> None,
     tags |-> tags, content |-> content]

\* a to_frontmatter that never writes the tags key
to_frontmatter_untagged(memo) ==
    LET base == [uuid |-> memo.uuid, id |-> memo.id, title |-> memo.title,
                 status |-> memo.status, created_at |-> memo.created_at]
    IN  IF memo.type # None /\ memo.type # ""
        THEN Put(base, "type", memo.type) ELSE base

\* Memo.to_frontmatter: the five required keys, and the type, due_date and
\* tags keys only when the value is truthy
to_frontmatter(memo) ==
    LET base == [uuid |-> memo.uuid, id |-> memo.id, title |-> memo.title,
                 status |-> memo.status, created_at |-> memo.created_at]
        typed == IF memo.type # None /\ memo.type # ""
                 THEN Put(base, "type", memo.type) ELSE base
        dated == IF memo.due_date # None
                 THEN Put(typed, "due_date", memo.due_date) ELSE typed
    IN  IF memo.tags # <<>> THEN Put(dated, "tags", memo.tags) ELSE dated

\* Memo.to_markdown: the file frontmatter.dumps writes.  The YAML layer of
\* the frontmatter library hands strings and lists back as they were
\* written.
to_markdown(memo) ==
    [metadata |-> to_frontmatter(memo), content |-> memo.content]

\* Memo.from_file: the parsed note, or the error it raises
from_file(fs, file_path) ==
    IF file_path \notin DOMAIN fs
    THEN [err |-> "file-not-found"]
    ELSE IF ~(required_fields \subseteq DOMAIN fs[file_path].metadata)
         THEN [err |-> "missing-fields"]
         ELSE [err |-> None,
               uuid |-> fs[file_path].metadata["uuid"],
               id |-> fs[file_path].metadata["id"],
               title |-> fs[file_path].metadata["title"],
               status |-> fs[file_path].metadata["status"],
               type |-> IF "type" \in DOMAIN fs[file_path].metadata
                        THEN fs[file_path].metadata["type"] ELSE None,
               tags |-> IF "tags" \in DOMAIN fs[file_path].metadata
                        THEN fs[file_path].metadata["tags"] ELSE <<>>,
               file_path |-> file_path]

\* a patch that replaces the metadata instead of merging into it
metadata_update_replacing(metadata, updates) == updates

\* post.metadata.update(frontmatter_updates)
metadata_update(metadata, updates) ==
    [k \in (DOMAIN metadata) \cup (DOMAIN updates) |->
        IF k \in DOMAIN updates THEN updates[k] ELSE metadata[k]]

\* the directory generate_next_id scans: that of the code of range_start
category_dir(schema, category) ==
    Schema_get_directory_path(schema,
        format_jd_id(schema.user_prefix, 0, category.range[1]))

\* SchemaManager.generate_next_id on the files fs: three decimals when the
\* range start has a third decimal; used_ids are the item values of the
\* notes that parse in the directory of the category
Schema_generate_next_id(schema, area_id, category_id, fs) ==
    IF ~Schema_has_area(schema, area_id) THEN MkCode("", <<>>, <<>>)
    ELSE IF ~has_category(Schema_get_area(schema, area_id), category_id)
    THEN MkCode("", <<>>, <<>>)
    ELSE
    LET category == get_category(Schema_get_area(schema, area_id), category_id)
        range_start == category.range[1]
        range_end == category.range[2]
        use_three_decimal == range_start % 10 # 0
        used_ids == {ItemValue(from_file(fs, p).id) :
                        p \in {q \in DOMAIN fs :
                                /\ q[1] = category_dir(schema, category)
                                /\ from_file(fs, q).err = None
                                /\ MatchesCodeFormat(from_file(fs, q).id)}}
    IN  NextIdLoop(range_start, range_end,
                   IF use_three_decimal THEN 1 ELSE 10, 0,
                   SpanSteps(category.range) + 1, used_ids)

\* the same on the default schema
generate_next_id(area_id, category_id, fs) ==
    Schema_generate_next_id(DefaultSchema, area_id, category_id, fs)

(***************************************************************************)
(* VersionLog: core/git_engine.py                                          *)
(***************************************************************************)
\* the working tree as git sees it: the note files and the index file
Disk(fs, idx) == Put(fs, IndexPath, idx)

\* the staging loop of auto_commit: a listed file that exists is added
StageFiles(stage, disk, fileList) ==
    [p \in (DOMAIN stage) \cup (fileList \cap DOMAIN disk) |->
        IF p \in fileList \cap DOMAIN disk THEN disk[p] ELSE stage[p]]

\* the change set of a commit of the staged tree on top of head
ChangeSet(head, stage) ==
    [changed |-> {p \in DOMAIN stage : p \notin DOMAIN head \/ head[p] # stage[p]},
     removed |-> (DOMAIN head) \ (DOMAIN stage)]

\* the parameters of GitEngine.auto_commit after self
auto_commit_params == {"commit_type", "scope", "message", "files"}

\* what the backend does in one auto_commit: repo.index.add raises, or the
\* files are staged and repo.index.commit raises, or the commit is made
Backend == {"add-raises", "commit-raises", "commits"}

\* GitEngine.auto_commit called with the keyword arguments kwargs beyond the
\* four positional ones.  A keyword the signature lacks is a TypeError at
\* the call, before the body runs.
auto_commit(g, disk, commit_type, scope, message, fileList, kwargs, backend) ==
    IF ~(kwargs \subseteq auto_commit_params) \/ backend = "add-raises"
    THEN [raised |-> TRUE, stage |-> g.stage, head |-> g.head, log |-> g.log]
    ELSE LET staged == StageFiles(g.stage, disk, fileList)
         IN  IF backend = "commits"
             THEN [raised |-> FALSE, stage |-> staged, head |-> staged,
                   log |-> Append(g.log,
                            [type |-> commit_type, scope |-> scope,
                             message |-> message,
                             changes |-> ChangeSet(g.head, staged)])]
             ELSE [raised |-> TRUE, stage |-> staged, head |-> g.head,
                   log |-> g.log]

(***************************************************************************)
(* State                                                                   *)
(***************************************************************************)
VARIABLES
    files,      \* note files on disk: path -> [metadata, content]
    index,      \* HashManager.index as saved in .mf/hash_index.json
    git,        \* the repository: staged tree, head tree, commit log
    created,    \* the hashes create_file has returned, in order
    lastCall,   \* the last call made on the store and its outcome
    failed,     \* whether some call so far raised an error
    calls,      \* number of calls made so far
    probe,      \* the last application of a function on its own: name,
                \* arguments and result
    registry,   \* ~/.memoflow/repos.json: the registered repositories
    dirs        \* the directories repositories live in: what each holds

vars == <<files, index, git, created, lastCall, failed, calls, probe,
          registry, dirs>>

NoPath == << <<>>, <<>> >>

\* the outcome of a call: the operation, "ok" or the error it raised, the
\* path it returned and what became of its commit step
Call == [op |-> "none", result |-> "ok", path |-> NoPath, commit |-> "none"]

NoProbe == [fn |-> "none"]

\* the directories a repository may be made in, by resolved path: two of
\* them have the same last component
Dirs == {"/w/a", "/w/b", "/x/a"}

\* a directory that does not exist
NoDir == [exists |-> FALSE, entries |-> {}, index |-> "absent"]

NoDirs == [d \in Dirs |-> NoDir]

Init ==
    /\ files = << >>
    /\ index = << >>
    /\ git = [stage |-> << >>, head |-> << >>, log |-> << >>]
    /\ created = << >>
    /\ lastCall = Call
    /\ failed = FALSE
    /\ calls = 0
    /\ probe = NoProbe
    /\ registry = <<>>
    /\ dirs = NoDirs

(***************************************************************************)
(* Inputs                                                                  *)
(***************************************************************************)
Titles == { <<"a", " ", "-", "b", "!">> }

FileTypes == {None, "task", "bogus"}


PrefixLen == 3

\* hashes a caller may pass: the indexed ones and short prefixes
HashArgs == (DOMAIN index) \cup {SubSeq(u, 1, PrefixLen) : u \in Uuids}

StaleCode == MkCode(user_prefix, <<0, 0>>, <<9, 9>>)

\* expected old codes a caller may pass: those stored in notes, and a stale one
OldCodes == {files[p].metadata["id"] : p \in DOMAIN files} \cup {StaleCode}

NewCodes ==
    { MkCode("HANK", <<1, 0>>, <<0, 0, 1>>),    \* valid, area 10 category 1
      MkCode("HANK", <<1, 0>>, <<0, 0, 2>>),    \* valid, same category
      MkCode("HANK", <<2, 0>>, <<0, 5>>),       \* valid, two digits
      MkCode("HANK", <<1, 0>>, <<5, 0, 0>>),    \* outside every range
      MkCode("ZZ", <<1, 0>>, <<0, 5, 0>>),      \* foreign prefix
      MkCode("HANK", <<3, 0>>, <<0, 1>>),       \* undeclared area
      MkCode("HANK", <<1, 0>>, <<1>>) }         \* malformed

\* metadata patches a caller may pass to update_file, by name
PatchNames == {"none", "type=task", "uuid=other"}

PatchOf(name) ==
    CASE name = "type=task" -> [type |-> "task"]
      [] name = "uuid=other" -> [uuid |-> SubSeq(Uuid(NumUuids), 1, HashLen)]
      [] OTHER -> << >>

ContentPatches == {None, "edited"}

(***************************************************************************)
(* NoteStore: core/file_manager.py                                         *)
(***************************************************************************)
ScopeNew == [text |-> "new", hash |-> <<>>]

ScopeHash(h) == [text |-> "", hash |-> h]

ScopeIndex == [text |-> "index", hash |-> <<>>]

Message(text, title, old, new, patch) ==
    [text |-> text, title |-> title, old |-> old, new |-> new, patch |-> patch]

\* a guard that lets the exception of auto_commit through
commit_guard_reraise(raised) == IF raised THEN "commit-failed" ELSE "ok"

\* the try/except around auto_commit: the exception is logged, not raised
commit_guard(raised) == "ok"

\* FileManager.read_file: resolve, then Memo.from_file of the single match
read_file(fs, idx, hash) ==
    LET matches == resolve(idx, hash)
    IN  IF matches = {} THEN [err |-> "not-found"]
        ELSE IF Cardinality(matches) > 1 THEN [err |-> "ambiguous"]
        ELSE from_file(fs, idx[CHOOSE h \in matches : TRUE].path)

\* FileManager.create_file with target_dir left to default to the inbox
create_file(fs, idx, g, file_type, title, content, full_uuid, redraw, backend, ordinal) ==
    LET gen == generate_hash(DOMAIN idx, full_uuid, redraw)
        hash_id == gen.hash
        inbox_count == Cardinality({p \in DOMAIN fs : p[1] = Inbox}) + 1
        temp_id == generate_temp_id(inbox_count)
        file_path == <<Inbox, <<hash_id, sanitize_filename(title)>> >>
        fs2 == Put(fs, file_path,
                   to_markdown(Memo(hash_id, temp_id, file_type, title,
                                    "open", ordinal, <<>>, content)))
        idx2 == register(idx, hash_id, file_path, temp_id)
        c == auto_commit(g, Disk(fs2, idx2), "feat", ScopeNew,
                         Message("capture", title, NoCode, NoCode, "none"),
                         {file_path, IndexPath}, {}, backend)
        unchanged == [hash |-> <<>>, path |-> NoPath, files |-> fs,
                      index |-> idx, git |-> g, commit |-> "none"]
    IN  IF file_type # None /\ file_type \notin valid_types
        THEN [result |-> "invalid-type"] @@ unchanged
        ELSE IF gen.raised
        THEN [result |-> "generation-exhausted"] @@ unchanged
        ELSE [result |-> commit_guard(c.raised), hash |-> hash_id,
              path |-> file_path, files |-> fs2, index |-> idx2,
              git |-> [stage |-> c.stage, head |-> c.head, log |-> c.log],
              commit |-> IF c.raised THEN "raised" ELSE "done"]

\* move_file without the validation of the target code
move_precheck_unvalidated(fs, idx, hash_id, old_path, new_jd_id) ==
    LET memo == read_file(fs, idx, hash_id)
    IN  IF memo.err # None THEN memo.err
        ELSE IF memo.id # old_path THEN "path-mismatch"
        ELSE "ok"

\* move_file validating the target code before comparing the old code
move_precheck_validate_first(fs, idx, hash_id, old_path, new_jd_id) ==
    LET memo == read_file(fs, idx, hash_id)
    IN  IF memo.err # None THEN memo.err
        ELSE IF ~validate_path(new_jd_id) THEN "invalid-path"
        ELSE IF memo.id # old_path THEN "path-mismatch"
        ELSE "ok"

\* move_file up to the last check: the error raised before any mutation
move_precheck(fs, idx, hash_id, old_path, new_jd_id) ==
    LET memo == read_file(fs, idx, hash_id)
    IN  IF memo.err # None THEN memo.err
        ELSE IF memo.id # old_path THEN "path-mismatch"
        ELSE IF ~validate_path(new_jd_id) THEN "invalid-path"
        ELSE "ok"

\* FileManager.move_file
move_file(fs, idx, g, hash_id, old_path, new_jd_id, backend) ==
    LET pre == move_precheck(fs, idx, hash_id, old_path, new_jd_id)
        unchanged == [path |-> NoPath, files |-> fs, index |-> idx,
                      git |-> g, commit |-> "none"]
    IN  IF pre # "ok" THEN [result |-> pre] @@ unchanged
        ELSE
        LET old_file_path == idx[CHOOSE h \in resolve(idx, hash_id) : TRUE].path
            post == [fs[old_file_path] EXCEPT !.metadata =
                        metadata_update(@, [id |-> new_jd_id])]
            new_dir == get_directory_path(new_jd_id)
            new_path == <<new_dir, old_file_path[2]>>
            fs2 == Drop(Put(fs, new_path, post), old_file_path)
        IN  IF new_dir = <<>>
            THEN [result |-> "no-directory"] @@ unchanged
            ELSE IF hash_id \notin DOMAIN idx
            THEN [result |-> "not-in-index", path |-> NoPath, files |-> fs2,
                  index |-> idx, git |-> g, commit |-> "none"]
            ELSE
            LET idx2 == update_path(idx, hash_id, new_path, new_jd_id)
                c == auto_commit(g, Disk(fs2, idx2), "refactor",
                                 ScopeHash(hash_id),
                                 Message("move", <<>>, old_path, new_jd_id, "none"),
                                 {new_path, IndexPath},
                                 {"removed_files"}, backend)
            IN  [result |-> commit_guard(c.raised), path |-> new_path,
                 files |-> fs2, index |-> idx2,
                 git |-> [stage |-> c.stage, head |-> c.head, log |-> c.log],
                 commit |-> IF c.raised THEN "raised" ELSE "done"]

\* the commit message update_file derives when the caller gives none
update_message(content, patch) ==
    IF content # None THEN Message("update content", <<>>, NoCode, NoCode, "none")
    ELSE IF patch # "none" THEN Message("set", <<>>, NoCode, NoCode, patch)
    ELSE Message("update file", <<>>, NoCode, NoCode, "none")

\* FileManager.update_file with commit_message left to default
update_file(fs, idx, g, hash_id, content, patch, backend) ==
    LET memo == read_file(fs, idx, hash_id)
    IN  IF memo.err # None
        THEN [result |-> memo.err, path |-> NoPath, files |-> fs,
              index |-> idx, git |-> g, commit |-> "none"]
        ELSE
        LET post == [metadata |-> metadata_update(fs[memo.file_path].metadata,
                                                  PatchOf(patch)),
                     content |-> IF content # None THEN content
                                 ELSE fs[memo.file_path].content]
            fs2 == Put(fs, memo.file_path, post)
            c == auto_commit(g, Disk(fs2, idx), "docs", ScopeHash(hash_id),
                             update_message(content, patch),
                             {memo.file_path}, {}, backend)
        IN  [result |-> commit_guard(c.raised), path |-> memo.file_path,
             files |-> fs2, index |-> idx,
             git |-> [stage |-> c.stage, head |-> c.head, log |-> c.log],
             commit |-> IF c.raised THEN "raised" ELSE "done"]

\* a scan that one unparsable file stops
query_fatal(fs, status, file_type) ==
    IF \E p \in DOMAIN fs : from_file(fs, p).err # None THEN {}
    ELSE {m \in {from_file(fs, p) : p \in DOMAIN fs} :
            /\ status # None => m.status = status
            /\ file_type # None => m.type = file_type}

\* FileManager.query with no due date: the notes that parse among the *.md
\* files and pass the status and the type filter; a filter of None is off
query(fs, status, file_type) ==
    {m \in {from_file(fs, p) : p \in DOMAIN fs} :
        /\ m.err = None
        /\ status # None => m.status = status
        /\ file_type # None => m.type = file_type}

(***************************************************************************)
(* Actions: one call on the store each                                     *)
(***************************************************************************)
Create(file_type, title, full_uuid, redraw, backend) ==
    /\ calls < MaxCalls
    /\ calls' = calls + 1
    /\ LET r == create_file(files, index, git, file_type, title, "body",
                            full_uuid, redraw, backend, Len(created) + 1)
       IN  /\ files' = r.files
           /\ index' = r.index
           /\ git' = r.git
           /\ created' = IF r.result = "ok" THEN Append(created, r.hash)
                         ELSE created
           /\ lastCall' = [op |-> "create", result |-> r.result,
                           path |-> r.path, commit |-> r.commit]
           /\ failed' = (failed \/ r.result # "ok")
    /\ UNCHANGED <<probe, registry, dirs>>

Move(hash_id, old_path, new_jd_id, backend) ==
    /\ calls < MaxCalls
    /\ calls' = calls + 1
    /\ LET r == move_file(files, index, git, hash_id, old_path, new_jd_id,
                          backend)
       IN  /\ files' = r.files
           /\ index' = r.index
           /\ git' = r.git
           /\ lastCall' = [op |-> "move", result |-> r.result,
                           path |-> r.path, commit |-> r.commit]
           /\ failed' = (failed \/ r.result # "ok")
    /\ UNCHANGED <<created, probe, registry, dirs>>

Update(hash_id, content, patch, backend) ==
    /\ calls < MaxCalls
    /\ calls' = calls + 1
    /\ LET r == update_file(files, index, git, hash_id, content, patch, backend)
       IN  /\ files' = r.files
           /\ index' = r.index
           /\ git' = r.git
           /\ lastCall' = [op |-> "update", result |-> r.result,
                           path |-> r.path, commit |-> r.commit]
           /\ failed' = (failed \/ r.result # "ok")
    /\ UNCHANGED <<created, probe, registry, dirs>>

Read(hash) ==
    /\ calls < MaxCalls
    /\ calls' = calls + 1
    /\ LET memo == read_file(files, index, hash)
       IN  /\ lastCall' = [op |-> "read",
                           result |-> IF memo.err = None THEN "ok" ELSE memo.err,
                           path |-> IF memo.err = None THEN memo.file_path
                                    ELSE NoPath,
                           commit |-> "none"]
           /\ failed' = (failed \/ memo.err # None)
    /\ UNCHANGED <<files, index, git, created, probe, registry, dirs>>

\* the calls whose inputs come from the given sets
NextOn(types, patches, contents, targets, backends) ==
    \/ \E file_type \in types, title \in Titles, full_uuid \in Uuids,
          redraw \in Uuids, backend \in backends :
            Create(file_type, title, full_uuid, redraw, backend)
    \/ \E hash_id \in HashArgs, old_path \in OldCodes, new_jd_id \in targets,
          backend \in backends :
            Move(hash_id, old_path, new_jd_id, backend)
    \/ \E hash_id \in HashArgs, content \in contents, patch \in patches,
          backend \in backends :
            Update(hash_id, content, patch, backend)
    \/ \E hash \in HashArgs : Read(hash)

\* the store with a backend that stages nothing and commits nothing
Next == NextOn(FileTypes, PatchNames, ContentPatches, NewCodes, {"add-raises"})

Spec == Init /\ [][Next]_vars

\* the same store when no caller patches the uuid key
NextPlain == NextOn(FileTypes, PatchNames \ {"uuid=other"}, ContentPatches,
                    NewCodes, {"add-raises"})

SpecPlain == Init /\ [][NextPlain]_vars

\* the backends of SpecLog
LogBackends == {"commit-raises", "commits"}

\* the version log with a backend that stages, and commits or fails to
LogTargets == {c \in NewCodes : c.item \in {<<0, 0, 1>>, <<0, 0, 2>>, <<5, 0, 0>>}}

NextLog == NextOn({None}, {"type=task"}, {None}, LogTargets,
                  {"commit-raises", "commits"})

SpecLog == Init /\ [][NextLog]_vars

\* commands/organize.py handle_rebuild_index: rebuild_index, then a chore
\* commit of the index file.  It is not counted as a call: a second rebuild
\* in a row changes nothing but the log.
Rebuild(backend) ==
    /\ lastCall.op # "rebuild"
    /\ LET parsed == {from_file(files, p) : p \in
                        {q \in DOMAIN files : from_file(files, q).err = None}}
           keys == {m.uuid : m \in parsed}
       IN  \E scanned \in [keys -> parsed] :
            /\ \A k \in keys : scanned[k].uuid = k
            /\ index' = rebuild_index(parsed, scanned)
            /\ LET c == auto_commit(git, Disk(files, index'), "chore",
                                    ScopeIndex,
                                    [text |-> "rebuild index",
                                     count |-> Cardinality(parsed)],
                                    {IndexPath}, {}, backend)
               IN  /\ git' = [stage |-> c.stage, head |-> c.head,
                              log |-> c.log]
                   /\ lastCall' = [op |-> "rebuild", result |-> "ok",
                                   path |-> NoPath,
                                   commit |-> IF c.raised THEN "raised"
                                              ELSE "done"]
    /\ UNCHANGED <<files, created, failed, calls, probe, registry, dirs>>

\* the user deletes or corrupts .mf/hash_index.json: _load_index then
\* starts from the empty index
LoseIndex ==
    /\ calls < MaxCalls
    /\ calls' = calls + 1
    /\ index # << >>
    /\ index' = << >>
    /\ lastCall' = [op |-> "lose-index", result |-> "ok", path |-> NoPath,
                    commit |-> "none"]
    /\ UNCHANGED <<files, git, created, failed, probe, registry, dirs>>

\* the user edits a note file by hand and drops its uuid line: the file no
\* longer parses
Scribble(file_path) ==
    /\ calls < MaxCalls
    /\ calls' = calls + 1
    /\ "uuid" \in DOMAIN files[file_path].metadata
    /\ files' = [files EXCEPT ![file_path].metadata = Drop(@, "uuid")]
    /\ lastCall' = [op |-> "scribble", result |-> "ok", path |-> file_path,
                    commit |-> "none"]
    /\ UNCHANGED <<index, git, created, failed, probe, registry, dirs>>

\* the store with rebuilds and manual edits
NextRebuild ==
    \/ NextOn({None}, PatchNames, {None}, LogTargets, {"commits"})
    \/ Rebuild("commits")
    \/ LoseIndex
    \/ \E file_path \in DOMAIN files : Scribble(file_path)

SpecRebuild == Init /\ [][NextRebuild]_vars

\* the store after n captures on a backend that never staged anything: the
\* i-th capture found i - 1 files in the inbox
CapturedHash(i) == <<9, 9, 9, (i \div 100) % 10, (i \div 10) % 10, i % 10>>

CapturedPath(i, title) ==
    <<Inbox, <<CapturedHash(i), sanitize_filename(title)>> >>

InitInbox ==
    /\ \E n \in {0, MaxInbox} : \E title \in Titles :
        /\ files = [p \in {CapturedPath(i, title) : i \in 1..n} |->
                        LET i == CHOOSE i \in 1..n : CapturedPath(i, title) = p
                        IN  to_markdown(Memo(CapturedHash(i),
                                             generate_temp_id(i), None, title,
                                             "open", i, <<>>, "body"))]
        /\ index = [h \in {CapturedHash(i) : i \in 1..n} |->
                        LET i == CHOOSE i \in 1..n : CapturedHash(i) = h
                        IN  [path |-> CapturedPath(i, title),
                             id |-> generate_temp_id(i)]]
        /\ created = [i \in 1..n |-> CapturedHash(i)]
    /\ git = [stage |-> << >>, head |-> << >>, log |-> << >>]
    /\ lastCall = Call
    /\ failed = FALSE
    /\ calls = 0
    /\ probe = NoProbe
    /\ registry = <<>>
    /\ dirs = NoDirs

\* captures into an empty and into a filled inbox
NextInbox ==
    \E file_type \in FileTypes, title \in Titles, full_uuid \in Uuids,
       redraw \in Uuids, backend \in LogBackends :
        Create(file_type, title, full_uuid, redraw, backend)

SpecInbox == InitInbox /\ [][NextInbox]_vars

\* a query; it reads the files only
StatusFilters == {None, "open"}

TypeFilters == {None, "task", "untyped"}

Query(status, file_type) ==
    /\ probe' = [fn |-> "query", status |-> status, file_type |-> file_type,
                 out |-> query(files, status, file_type)]
    /\ UNCHANGED <<files, index, git, created, lastCall, failed, calls,
                   registry, dirs>>

\* the store after one capture of an untyped note
InitCaptured ==
    /\ \E title \in Titles :
        /\ files = (CapturedPath(1, title) :>
                        to_markdown(Memo(CapturedHash(1), generate_temp_id(1),
                                         None, title, "open", 1, <<>>, "body")))
        /\ index = (CapturedHash(1) :>
                        [path |-> CapturedPath(1, title),
                         id |-> generate_temp_id(1)])
    /\ created = <<CapturedHash(1)>>
    /\ git = [stage |-> << >>, head |-> << >>, log |-> << >>]
    /\ lastCall = Call
    /\ failed = FALSE
    /\ calls = 0
    /\ probe = NoProbe
    /\ registry = <<>>
    /\ dirs = NoDirs

\* captures, retypes to task, moves and queries
NextQuery ==
    \/ NextOn({None}, {"type=task"}, {None}, LogTargets, {"add-raises"})
    \/ \E status \in StatusFilters, file_type \in TypeFilters :
            Query(status, file_type)

SpecQuery == InitCaptured /\ [][NextQuery]_vars

(***************************************************************************)
(* Functions applied on their own                                          *)
(***************************************************************************)
storeVars == <<files, index, git, created, lastCall, failed, calls,
               registry, dirs>>

TagNames == {"x", "y"}

TagLists == UNION {[1..n -> TagNames] : n \in 0..MaxTags}

\* the notes written and read back
Memos ==
    {Memo(SubSeq(Uuid(1), 1, HashLen), id, type, title, status, 1, tags, "body") :
        id \in {generate_temp_id(1), MkCode("HANK", <<1, 0>>, <<0, 0, 1>>)},
        type \in valid_types \cup {None},
        title \in Titles \cup {<<>>},
        status \in {"open", "done", "archived"},
        tags \in TagLists}

\* Each behaviour of SpecFn applies one function once.
\* memo.to_markdown() written to a file, then Memo.from_file of that file
RoundTrip(memo) ==
    /\ probe = NoProbe
    /\ LET file_path == <<Inbox, <<memo.uuid, sanitize_filename(memo.title)>> >>
       IN  probe' = [fn |-> "round-trip", memo |-> memo,
                     out |-> from_file(file_path :> to_markdown(memo),
                                       file_path)]
    /\ UNCHANGED storeVars

\* the strings validate_path is given: prefix, "-", area digits, ".", item
\* digits and a tail
PathInputs ==
    [prefix : {"HANK", "ZZ", "hank", ""},
     area : {<<>>, <<1>>, <<1, 0>>, <<0, 1, 0>>, <<2, 0>>, <<3, 0>>},
     item : {<<1>>, <<0, 0>>, <<0, 5>>, <<1, 0>>, <<9, 9>>,
             <<0, 0, 0>>, <<0, 0, 1>>, <<0, 5, 0>>, <<0, 9, 9>>, <<1, 0, 0>>,
             <<1, 5, 0>>, <<1, 9, 9>>, <<2, 0, 0>>, <<5, 0, 0>>,
             <<0, 0, 1, 0>>},
     tail : {"", "\n", " "}]

Validate(path) ==
    /\ probe = NoProbe
    /\ probe' = [fn |-> "validate_path", path |-> path,
                 out |-> validate_path(path)]
    /\ UNCHANGED storeVars

\* a schema.yaml whose categories overlap: in area 10 the second category
\* starts inside the first and the third lies within the first; area 20
\* has a gap between its categories and is declared a second time
OverlapSchema ==
    [user_prefix |-> "HANK",
     areas |->
        << [id |-> 10, categories |->
                << [id |-> 1, range |-> <<10001, 10150>>],
                   [id |-> 2, range |-> <<10100, 10199>>],
                   [id |-> 3, range |-> <<10050, 10099>>] >>],
           [id |-> 20, categories |->
                << [id |-> 1, range |-> <<20001, 20050>>],
                   [id |-> 2, range |-> <<20100, 20199>>] >>],
           [id |-> 20, categories |->
                << [id |-> 1, range |-> <<20001, 20199>>] >>] >>]

Schemas == {DefaultSchema, OverlapSchema}

\* validate_path and get_directory_path of one schema on one string
Locate(schema, jd_id) ==
    /\ probe = NoProbe
    /\ probe' = [fn |-> "get_directory_path", schema |-> schema,
                 jd_id |-> jd_id,
                 valid |-> Schema_validate_path(schema, jd_id),
                 out |-> Schema_get_directory_path(schema, jd_id)]
    /\ UNCHANGED storeVars

\* the notes with the given codes, each filed in the directory of its code
FiledPath(code) ==
    <<get_directory_path(code), <<Digits(ItemValue(code), HashLen), <<>>>> >>

Filed(codes) ==
    [p \in {FiledPath(code) : code \in codes} |->
        LET code == CHOOSE code \in codes : FiledPath(code) = p
        IN  to_markdown(Memo(Digits(ItemValue(code), HashLen), code, None,
                             <<>>, "open", 1, <<>>, "body"))]

\* the codes of n values from start on, step thousandths apart
Run(start, step, n) ==
    {format_jd_id(user_prefix, 0, start + step * i) : i \in 0..(n - 1)}

\* the directories generate_next_id is run on: the first n values of the
\* range in thousandths and in hundredths, and the subsets of the first
\* three values
CodeSets(start) ==
    {Run(start, 1, n) : n \in 0..MaxFiled}
        \cup {Run(start, 10, n) : n \in 0..10}
        \cup SUBSET Run(start, 1, 3)

NextId(area_id, category_id, codes) ==
    /\ probe = NoProbe
    /\ probe' = [fn |-> "generate_next_id", area_id |-> area_id,
                 category_id |-> category_id, codes |-> codes,
                 out |-> generate_next_id(area_id, category_id, Filed(codes))]
    /\ UNCHANGED storeVars

\* the indexes update_path is run on: the first n of the hashes a store
\* gives its notes when every uuid4() draws the same value
IndexInputs ==
    {[h \in {SubSeq(Uuid(1), 1, HashLen + k) : k \in 0..(n - 1)} |->
        [path |-> <<Inbox, <<h, <<"a">>>> >>,
         id |-> generate_temp_id(Len(h) - HashLen + 1)]] : n \in 0..3}

UpdatePath(idx, hash_id, new_path, new_jd_id) ==
    /\ probe = NoProbe
    /\ probe' = [fn |-> "update_path", idx |-> idx, hash_id |-> hash_id,
                 new_path |-> new_path, new_jd_id |-> new_jd_id,
                 out |-> update_path_call(idx, hash_id, new_path, new_jd_id)]
    /\ UNCHANGED storeVars

NextFn ==
    \/ \E memo \in Memos : RoundTrip(memo)
    \/ \E idx \in IndexInputs,
          hash_id \in {SubSeq(Uuid(1), 1, n) : n \in 0..(HashLen + 2)},
          new_jd_id \in {NoCode} \cup LogTargets :
        \E new_path \in {<<get_directory_path(c), <<hash_id, <<"a">>>> >> :
                            c \in LogTargets} :
            UpdatePath(idx, hash_id, new_path, new_jd_id)
    \/ \E area_id \in {10, 20, 30}, category_id \in {1, 2, 3} :
        \E codes \in
            IF has_area(area_id) /\ has_category(get_area(area_id), category_id)
            THEN CodeSets(get_category(get_area(area_id), category_id).range[1])
            ELSE {{}} :
                NextId(area_id, category_id, codes)
    \/ \E path \in PathInputs : Validate(path)
    \/ \E schema \in Schemas, jd_id \in PathInputs : Locate(schema, jd_id)

SpecFn == Init /\ [][NextFn]_vars

(***************************************************************************)
(* generate_hash, one loop iteration at a time                             *)
(***************************************************************************)
\* index contents: of each uuid the prefixes of 6 up to some length
KeyDepths == {HashLen - 1, HashLen, MaxHashLen - 1, MaxHashLen}

KeySets ==
    {UNION {{SubSeq(u, 1, n) : n \in HashLen..depth[u]} : u \in Uuids} :
        depth \in [Uuids -> KeyDepths]}

\* the call: full_uuid = uuid.uuid4().hex and the first candidate
GenStart(keys, full_uuid) ==
    /\ probe = NoProbe
    /\ probe' = [fn |-> "generate_hash", pc |-> "loop", keys |-> keys,
                 full_uuid |-> full_uuid,
                 short_hash |-> SubSeq(full_uuid, 1, HashLen),
                 length |-> HashLen, attempts |-> 0]
    /\ UNCHANGED storeVars

\* the loop condition holds: one iteration
GenIterate(redraw) ==
    /\ probe.fn = "generate_hash"
    /\ probe.pc = "loop"
    /\ probe.short_hash \in probe.keys
    /\ probe.attempts < MaxAttempts
    /\ probe' = gen_iteration(probe, redraw)
    /\ UNCHANGED storeVars

\* the loop condition fails: the ValueError or the return
GenExit ==
    /\ probe.fn = "generate_hash"
    /\ probe.pc = "loop"
    /\ ~(probe.short_hash \in probe.keys /\ probe.attempts < MaxAttempts)
    /\ probe' = [probe EXCEPT !.pc = IF probe.short_hash \in probe.keys
                                     THEN "raised" ELSE "returned"]
    /\ UNCHANGED storeVars

GenRun == (\E redraw \in Uuids : GenIterate(redraw)) \/ GenExit

NextGen ==
    \/ \E keys \in KeySets, full_uuid \in Uuids : GenStart(keys, full_uuid)
    \/ \E redraw \in Uuids : GenIterate(redraw)
    \/ GenExit

\* a call that has started keeps running
SpecGen == Init /\ [][NextGen]_vars /\ WF_vars(GenRun)

(***************************************************************************)
(* GitEngine.parse_timeline                                                *)
(***************************************************************************)
\* the characters of the commit messages of the model
Alphabet == WordChars \cup SpaceChars \cup {"(", ")", ":", "-", "!", "\n"}

\* the number of characters from position i of s on that are in class
RECURSIVE RunLen(_, _, _)
RunLen(s, i, class) ==
    IF i > Len(s) \/ s[i] \notin class THEN 0
    ELSE 1 + RunLen(s, i + 1, class)

chore == <<"c", "h", "o", "r", "e">>
unknown == <<"u", "n", "k", "n", "o", "w", "n">>

\* re.match(r'(\w+)\(([^)]+)\):\s*(.+)', message): \s* gives back blanks
\* until .+ finds a character that is not a newline
re_match(message) ==
    LET w == RunLen(message, 1, WordChars)
        sc == RunLen(message, w + 2, Alphabet \ {")"})
        colon == w + sc + 3
        blanks == RunLen(message, colon + 1, SpaceChars \cup {"\n"})
        starts == {k \in 0..blanks :
                    /\ colon + k + 1 <= Len(message)
                    /\ message[colon + k + 1] # "\n"}
        from == colon + 1 + CHOOSE k \in starts : \A j \in starts : j <= k
        matched ==
            /\ w >= 1
            /\ w + 1 <= Len(message) /\ message[w + 1] = "("
            /\ sc >= 1
            /\ colon <= Len(message)
            /\ message[colon - 1] = ")"
            /\ message[colon] = ":"
            /\ starts # {}
    IN  IF ~matched THEN [matched |-> FALSE]
        ELSE [matched |-> TRUE,
              group1 |-> SubSeq(message, 1, w),
              group2 |-> SubSeq(message, w + 2, w + sc + 1),
              group3 |-> SubSeq(message, from,
                                from - 1 + RunLen(message, from,
                                                  Alphabet \ {"\n"}))]

\* commit.message.split('\n')[0]
first_line(message) ==
    SubSeq(message, 1, RunLen(message, 1, Alphabet \ {"\n"}))

\* today, in days; a commit carries the day it was made
Now == 8

\* datetime.now() - timedelta(...) for the since strings the code knows;
\* any other string goes to git's own date parser and is not among the
\* inputs of the model
since_dt(since) ==
    IF since \in {"1.week", "1 week", "1 week ago"} THEN Now - 7
    ELSE IF since \in {"1.day", "1 day", "1 day ago"} THEN Now - 1
    ELSE 0

\* repo.iter_commits(since=...): the commits of the log from the newest
\* back, those made before the given day left out
RECURSIVE iter_commits(_, _)
iter_commits(log, since) ==
    IF log = <<>> THEN <<>>
    ELSE LET c == log[Len(log)]
             rest == iter_commits(SubSeq(log, 1, Len(log) - 1), since)
         IN  IF c.committed >= since THEN <<c>> \o rest ELSE rest

\* the record parse_timeline makes of one commit
timeline_entry(commit) ==
    LET match == re_match(commit.message)
    IN  IF match.matched
        THEN [type |-> match.group1, scope |-> match.group2,
              message |-> match.group3, hash |-> commit.hexsha,
              timestamp |-> commit.committed]
        ELSE [type |-> chore, scope |-> unknown,
              message |-> first_line(commit.message),
              hash |-> commit.hexsha, timestamp |-> commit.committed]

\* sorted(timeline, key=timestamp, reverse=True): stable, newest first
RECURSIVE sorted_reverse(_)
sorted_reverse(timeline) ==
    IF timeline = <<>> THEN <<>>
    ELSE LET e == timeline[Len(timeline)]
             front == sorted_reverse(SubSeq(timeline, 1, Len(timeline) - 1))
             n == Cardinality({i \in 1..Len(front) :
                                front[i].timestamp >= e.timestamp})
         IN  SubSeq(front, 1, n) \o <<e>> \o SubSeq(front, n + 1, Len(front))

\* no until argument
NoUntil == [given |-> FALSE, day |-> 0, aware |-> FALSE]

\* GitEngine.parse_timeline.  commit.committed_datetime carries a time zone;
\* comparing it with an until that carries none raises TypeError inside the
\* try block, and the except branch then takes every commit of the log.
parse_timeline(log, since, until) ==
    LET commits == iter_commits(log, since_dt(since))
        raised == until.given /\ ~until.aware /\ commits # <<>>
        LessEq(c) == c.committed <= until.day
        selected == IF ~until.given THEN commits
                    ELSE IF raised THEN iter_commits(log, 0)
                    ELSE SelectSeq(commits, LessEq)
    IN  sorted_reverse([i \in 1..Len(selected) |-> timeline_entry(selected[i])])

\* the commit messages of the model: headers type(scope): message with or
\* without a body, and messages that are no such header
Compose(type, scope, message) ==
    type \o <<"(">> \o scope \o <<")", ":", " ">> \o message

Headers ==
    {[type |-> <<"a">>, scope |-> <<"b">>, message |-> <<"a">>],
     [type |-> <<"a", "b">>, scope |-> <<"a", "-", "b">>,
      message |-> <<"b", " ", "a">>],
     [type |-> <<"b", "_">>, scope |-> <<"a", " ", "(">>,
      message |-> <<"a", ":", " ", "(", "b", ")">>]}

Bodies == {<<>>, <<"\n", "\n", "b">>}

OtherMessages ==
    {<<"a", "b">>,
     <<"a", "(", ")", ":", " ", "b">>,
     <<" ", "a", "(", "b", ")", ":", " ", "a">>,
     <<"a", "(", "b", ")", " ", "a">>,
     <<"b", " ", "a", "\n", "b">>}

Messages ==
    {Compose(h.type, h.scope, h.message) \o body :
        h \in Headers, body \in Bodies} \cup OtherMessages

Days == {0, 4, 8}

\* the logs: up to MaxCommits commits, none made before its parent
Logs ==
    UNION {{[i \in 1..n |-> [message |-> m[i], committed |-> d[i],
                             hexsha |-> i]] :
                m \in [1..n -> Messages],
                d \in {f \in [1..n -> Days] :
                         \A i \in 1..n, j \in 1..n : i < j => f[i] <= f[j]}} :
            n \in 0..MaxCommits}

Untils == {NoUntil} \cup [given : {TRUE}, day : Days, aware : BOOLEAN]

ParseTimeline(log, since, until) ==
    /\ probe = NoProbe
    /\ probe' = [fn |-> "parse_timeline", log |-> log, since |-> since,
                 until |-> until, out |-> parse_timeline(log, since, until)]
    /\ UNCHANGED storeVars

NextTimeline ==
    \E log \in Logs, since \in {"1 week ago", "1 day ago"}, until \in Untils :
        ParseTimeline(log, since, until)

SpecTimeline == Init /\ [][NextTimeline]_vars

(***************************************************************************)
(* Commit messages as written and as read back                             *)
(***************************************************************************)
\* CommitType.value
CommitTypeValue(commit_type) ==
    CASE commit_type = "feat" -> <<"f", "e", "a", "t">>
      [] commit_type = "refactor" -> <<"r", "e", "f", "a", "c", "t", "o", "r">>
      [] commit_type = "docs" -> <<"d", "o", "c", "s">>
      [] commit_type = "chore" -> chore

\* a hash or a count as the characters of its digits
DigitChar(d) == <<"0", "1", "2", "3", "4", "5", "6", "7", "8", "9">>[d + 1]

HashText(h) == [i \in 1..Len(h) |-> DigitChar(h[i])]

\* str(count) of a count below one hundred
CountText(n) ==
    IF n < 10 THEN <<DigitChar(n)>>
    ELSE <<DigitChar(n \div 10), DigitChar(n % 10)>>

\* the scope argument of auto_commit as text
ScopeText(scope) ==
    CASE scope.text = "new" -> <<"n", "e", "w">>
      [] scope.text = "index" -> <<"i", "n", "d", "e", "x">>
      [] OTHER -> HashText(scope.hash)

\* the message argument of auto_commit as text
MessageText(message) ==
    CASE message.text = "capture" ->
            <<"c", "a", "p", "t", "u", "r", "e", " ">> \o message.title
      [] message.text = "update content" ->
            <<"u", "p", "d", "a", "t", "e", " ",
              "c", "o", "n", "t", "e", "n", "t">>
      [] message.text = "update file" ->
            <<"u", "p", "d", "a", "t", "e", " ", "f", "i", "l", "e">>
      [] message.text = "set" /\ message.patch = "type=task" ->
            <<"s", "e", "t", " ", "t", "y", "p", "e", " ", "t", "o", " ",
              "t", "a", "s", "k">>
      [] message.text = "set" /\ message.patch = "uuid=other" ->
            <<"s", "e", "t", " ", "u", "u", "i", "d", " ", "t", "o", " ">>
                \o HashText(PatchOf("uuid=other").uuid)
      [] message.text = "mark as done" ->
            <<"m", "a", "r", "k", " ", "a", "s", " ", "d", "o", "n", "e">>
      [] message.text = "rebuild index" ->
            <<"r", "e", "b", "u", "i", "l", "d", " ",
              "i", "n", "d", "e", "x", " ", "w", "i", "t", "h", " ">>
                \o CountText(message.count)
                \o <<" ", "f", "i", "l", "e", "s">>

\* full_message of auto_commit
full_message(commit_type, scope, message) ==
    Compose(CommitTypeValue(commit_type), ScopeText(scope), MessageText(message))

\* the repository log as parse_timeline finds it, every commit made today
RepoLog(log) ==
    [i \in 1..Len(log) |->
        [message |-> full_message(log[i].type, log[i].scope, log[i].message),
         committed |-> Now, hexsha |-> i]]

\* mark_finished routed through update_file, whose commit is of type docs
mark_finished_as_update(fs, idx, g, hash, backend) ==
    LET memo == read_file(fs, idx, hash)
        unchanged == [path |-> NoPath, files |-> fs, git |-> g,
                      commit |-> "none"]
    IN  IF memo.err # None THEN [result |-> memo.err] @@ unchanged
        ELSE IF memo.status = "done"
        THEN [result |-> "already-done"] @@ unchanged
        ELSE
        LET post == [fs[memo.file_path] EXCEPT !.metadata =
                        metadata_update(@, [status |-> "done"])]
            fs2 == Put(fs, memo.file_path, post)
            c == auto_commit(g, Disk(fs2, idx), "docs", ScopeHash(hash),
                             Message("mark as done", <<>>, NoCode, NoCode,
                                     "none"),
                             {memo.file_path}, {}, backend)
        IN  [result |-> IF c.raised THEN "commit-failed" ELSE "ok",
             path |-> memo.file_path, files |-> fs2,
             git |-> [stage |-> c.stage, head |-> c.head, log |-> c.log],
             commit |-> IF c.raised THEN "raised" ELSE "done"]

\* commands/engage.py mark_finished: the commit is not guarded
mark_finished(fs, idx, g, hash, backend) ==
    LET memo == read_file(fs, idx, hash)
        unchanged == [path |-> NoPath, files |-> fs, git |-> g,
                      commit |-> "none"]
    IN  IF memo.err # None THEN [result |-> memo.err] @@ unchanged
        ELSE IF memo.status = "done"
        THEN [result |-> "already-done"] @@ unchanged
        ELSE
        LET post == [fs[memo.file_path] EXCEPT !.metadata =
                        metadata_update(@, [status |-> "done"])]
            fs2 == Put(fs, memo.file_path, post)
            c == auto_commit(g, Disk(fs2, idx), "feat", ScopeHash(hash),
                             Message("mark as done", <<>>, NoCode, NoCode,
                                     "none"),
                             {memo.file_path}, {}, backend)
        IN  [result |-> IF c.raised THEN "commit-failed" ELSE "ok",
             path |-> memo.file_path, files |-> fs2,
             git |-> [stage |-> c.stage, head |-> c.head, log |-> c.log],
             commit |-> IF c.raised THEN "raised" ELSE "done"]

Finish(hash, backend) ==
    /\ calls < MaxCalls
    /\ calls' = calls + 1
    /\ LET r == mark_finished(files, index, git, hash, backend)
       IN  /\ files' = r.files
           /\ git' = r.git
           /\ lastCall' = [op |-> "finish", result |-> r.result,
                           path |-> r.path, commit |-> r.commit]
           /\ failed' = (failed \/ r.result \notin {"ok", "already-done"})
    /\ UNCHANGED <<index, created, probe, registry, dirs>>

\* hashes a caller may pass: the indexed ones and their prefixes of length
\* PrefixLen and of length zero
HashPrefixes == (DOMAIN index) \cup {SubSeq(u, 1, n) : u \in Uuids, n \in {0, PrefixLen}}

\* the store on a backend that commits, with completion and index rebuild
NextHistory ==
    \/ \E title \in Titles, full_uuid \in Uuids, redraw \in Uuids :
            Create(None, title, full_uuid, redraw, "commits")
    \/ \E hash_id \in HashPrefixes, old_path \in OldCodes,
          new_jd_id \in LogTargets :
            Move(hash_id, old_path, new_jd_id, "commits")
    \/ \E hash_id \in HashPrefixes, content \in ContentPatches,
          patch \in PatchNames \ {"uuid=other"} :
            Update(hash_id, content, patch, "commits")
    \/ \E hash \in HashPrefixes : Finish(hash, "commits")
    \/ Rebuild("commits")

SpecHistory == Init /\ [][NextHistory]_vars

\* the status filters of SpecScan
ScanStatuses == StatusFilters \cup {"done"}

\* captures, completions and moves on a store whose index the user may lose
\* and whose files the user may damage, and then one query
NextScan ==
    \/ /\ probe = NoProbe
       /\ \/ \E file_type \in {None, "task"}, title \in Titles,
                full_uuid \in Uuids :
                    Create(file_type, title, full_uuid, full_uuid, "add-raises")
          \/ \E hash_id \in DOMAIN index, old_path \in OldCodes \ {StaleCode},
                new_jd_id \in LogTargets :
                    Move(hash_id, old_path, new_jd_id, "add-raises")
          \/ \E hash \in DOMAIN index : Finish(hash, "add-raises")
          \/ LoseIndex
          \/ \E file_path \in DOMAIN files : Scribble(file_path)
    \/ /\ probe = NoProbe
       /\ \E status \in ScanStatuses, file_type \in TypeFilters :
            Query(status, file_type)

SpecScan == InitCaptured /\ [][NextScan]_vars

(***************************************************************************)
(* GitEngine.push                                                          *)
(***************************************************************************)
\* what the try block of push meets: repo.remote(remote) raises because no
\* such remote is configured; origin.push() raises because the push failed
\* as a whole; origin.push() returns a result whose heads the remote
\* rejected (it raises only when raise_if_error is called on the result);
\* origin.push() returns after the remote took the heads
PushOutcomes == {"no-remote", "push-raises", "rejected", "pushed"}

\* GitEngine.push: the result and whether the remote was contacted
push(auto_push, outcome) ==
    IF ~auto_push THEN [result |-> FALSE, contacted |-> FALSE]
    ELSE IF outcome = "no-remote" THEN [result |-> FALSE, contacted |-> FALSE]
    ELSE IF outcome = "push-raises" THEN [result |-> FALSE, contacted |-> TRUE]
    ELSE [result |-> TRUE, contacted |-> TRUE]

Push(auto_push, outcome) ==
    /\ probe' = [fn |-> "push", auto_push |-> auto_push,
                 outcome |-> outcome, out |-> push(auto_push, outcome),
                 at |-> calls]
    /\ probe' # probe
    /\ UNCHANGED storeVars

\* the store on a backend that commits, with pushes between the calls
NextPush ==
    \/ NextOn({None}, {"type=task"}, {None}, LogTargets, {"commits"})
    \/ \E auto_push \in BOOLEAN, outcome \in PushOutcomes :
            Push(auto_push, outcome)

SpecPush == Init /\ [][NextPush]_vars

(***************************************************************************)
(* create_file and move_file one statement at a time, in two processes     *)
(***************************************************************************)
\* each process is one run of the command line: it builds its HashManager,
\* which loads the index file, and makes one call
Procs == {1, 2}

NoPost == [metadata |-> << >>, content |-> ""]

\* a process that has not built its HashManager
IdleProc ==
    [pc |-> "idle", op |-> "none", mem |-> << >>, hash_id |-> << >>,
     file_path |-> NoPath, old_file_path |-> NoPath, jd_id |-> NoCode,
     old_id |-> NoCode, title |-> << >>, post |-> NoPost, steps |-> << >>,
     raised |-> "none"]

\* what an open(..., 'w') or a json.dump does: it writes or raises
IoOutcomes == {"ok", "raises"}

\* a store in which a failed save of the index is only logged
after_statement_swallowing(pc, raised) ==
    CASE pc = "write" -> IF raised THEN "raised" ELSE "index"
      [] pc = "index" -> "commit"
      [] pc = "commit" -> "returned"

\* the statement that follows the file write, the index update and the
\* guarded auto_commit: an exception of the first two leaves the method,
\* one of auto_commit is caught
after_statement(pc, raised) ==
    CASE pc = "write" -> IF raised THEN "raised" ELSE "index"
      [] pc = "index" -> IF raised THEN "raised" ELSE "commit"
      [] pc = "commit" -> "returned"

\* a HashManager that starts from an empty index instead of the index file
LoadIndex_unread(p) ==
    /\ probe.fn = "statements"
    /\ probe.procs[p].pc = "idle"
    /\ probe' = [probe EXCEPT
                    !.procs[p] = [IdleProc EXCEPT !.pc = "loaded"],
                    !.serial = @ /\ \A q \in Procs \ {p} :
                                        probe.procs[q].pc = "idle"]
    /\ UNCHANGED storeVars

\* HashManager.__init__: self.index = self._load_index().  serial records
\* that so far every process was started when no other was running.
LoadIndex(p) ==
    /\ probe.fn = "statements"
    /\ probe.procs[p].pc = "idle"
    /\ probe' = [probe EXCEPT
                    !.procs[p] = [IdleProc EXCEPT !.pc = "loaded",
                                                  !.mem = index],
                    !.serial = @ /\ \A q \in Procs \ {p} :
                                        probe.procs[q].pc = "idle"]
    /\ UNCHANGED storeVars

\* create_file up to the open of the note file
BeginCreate(p, title, full_uuid, redraw) ==
    /\ probe.fn = "statements"
    /\ probe.procs[p].pc = "loaded"
    /\ calls < MaxRuns
    /\ calls' = calls + 1
    /\ LET me == probe.procs[p]
           gen == generate_hash(DOMAIN me.mem, full_uuid, redraw)
           inbox_count == Cardinality({q \in DOMAIN files : q[1] = Inbox}) + 1
           temp_id == generate_temp_id(inbox_count)
       IN  probe' = [probe EXCEPT !.procs[p] =
                IF gen.raised
                THEN [me EXCEPT !.op = "create", !.pc = "raised",
                                !.raised = "generation-exhausted"]
                ELSE [me EXCEPT !.op = "create", !.pc = "write",
                        !.hash_id = gen.hash,
                        !.file_path = <<Inbox, <<gen.hash,
                                                 sanitize_filename(title)>> >>,
                        !.jd_id = temp_id,
                        !.title = title,
                        !.post = to_markdown(Memo(gen.hash, temp_id, None,
                                    title, "open", calls + 1, <<>>, "body"))]]
    /\ UNCHANGED <<files, index, git, created, lastCall, failed, registry,
                   dirs>>

\* move_file up to the open of the new file
BeginMove(p, hash_id, old_path, new_jd_id) ==
    /\ probe.fn = "statements"
    /\ probe.procs[p].pc = "loaded"
    /\ calls < MaxRuns
    /\ calls' = calls + 1
    /\ LET me == probe.procs[p]
           pre == move_precheck(files, me.mem, hash_id, old_path, new_jd_id)
           old_file_path ==
               me.mem[CHOOSE h \in resolve(me.mem, hash_id) : TRUE].path
       IN  probe' = [probe EXCEPT !.procs[p] =
                IF pre # "ok"
                THEN [me EXCEPT !.op = "move", !.pc = "raised",
                                !.raised = pre]
                ELSE [me EXCEPT !.op = "move", !.pc = "write",
                        !.hash_id = hash_id,
                        !.old_file_path = old_file_path,
                        !.file_path = <<get_directory_path(new_jd_id),
                                        old_file_path[2]>>,
                        !.jd_id = new_jd_id,
                        !.old_id = old_path,
                        !.post = [files[old_file_path] EXCEPT !.metadata =
                                    metadata_update(@, [id |-> new_jd_id])]]]
    /\ UNCHANGED <<files, index, git, created, lastCall, failed, registry,
                   dirs>>

\* the note file is written (and in a move the old file unlinked)
WriteFile(p, io) ==
    /\ probe.fn = "statements"
    /\ probe.procs[p].pc = "write"
    /\ LET me == probe.procs[p]
           raised == io = "raises"
       IN  /\ files' =
                IF raised THEN files
                ELSE IF me.op = "create" THEN Put(files, me.file_path, me.post)
                ELSE Drop(Put(files, me.file_path, me.post), me.old_file_path)
           /\ probe' = [probe EXCEPT !.procs[p] =
                [me EXCEPT !.pc = after_statement("write", raised),
                           !.steps = IF raised THEN @ ELSE Append(@, "write"),
                           !.raised = IF raised THEN "write" ELSE @]]
    /\ UNCHANGED <<index, git, created, lastCall, failed, calls, registry,
                   dirs>>

\* register or update_path: the entry is set in self.index and the whole
\* of self.index is dumped over the index file
SaveIndex(p, io) ==
    /\ probe.fn = "statements"
    /\ probe.procs[p].pc = "index"
    /\ LET me == probe.procs[p]
           no_key == me.op = "move" /\ me.hash_id \notin DOMAIN me.mem
           raised == no_key \/ io = "raises"
           mem2 == IF no_key THEN me.mem
                   ELSE IF me.op = "create"
                   THEN register(me.mem, me.hash_id, me.file_path, me.jd_id)
                   ELSE update_path(me.mem, me.hash_id, me.file_path, me.jd_id)
       IN  /\ index' = IF raised THEN index ELSE mem2
           /\ probe' = [probe EXCEPT !.procs[p] =
                [me EXCEPT !.pc = after_statement("index", raised),
                           !.mem = mem2,
                           !.steps = IF raised THEN @ ELSE Append(@, "index"),
                           !.raised = IF raised THEN "index" ELSE @]]
    /\ UNCHANGED <<files, git, created, lastCall, failed, calls, registry,
                   dirs>>

\* the guarded auto_commit of the note file and the index file
CommitFiles(p, backend) ==
    /\ probe.fn = "statements"
    /\ probe.procs[p].pc = "commit"
    /\ LET me == probe.procs[p]
           c == IF me.op = "create"
                THEN auto_commit(git, Disk(files, index), "feat", ScopeNew,
                        Message("capture", me.title, NoCode, NoCode, "none"),
                        {me.file_path, IndexPath}, {}, backend)
                ELSE auto_commit(git, Disk(files, index), "refactor",
                        ScopeHash(me.hash_id),
                        Message("move", <<>>, me.old_id, me.jd_id, "none"),
                        {me.file_path, IndexPath}, {"removed_files"}, backend)
       IN  /\ git' = [stage |-> c.stage, head |-> c.head, log |-> c.log]
           /\ created' = IF me.op = "create" THEN Append(created, me.hash_id)
                         ELSE created
           /\ probe' = [probe EXCEPT !.procs[p] =
                [me EXCEPT !.pc = after_statement("commit", c.raised),
                           !.steps = Append(@, "commit")]]
    /\ UNCHANGED <<files, index, lastCall, failed, calls, registry, dirs>>

\* the process ends
ExitProc(p) ==
    /\ probe.fn = "statements"
    /\ probe.procs[p].pc \in {"returned", "raised"}
    /\ probe' = [probe EXCEPT !.procs[p] = IdleProc]
    /\ UNCHANGED storeVars

InitStatements ==
    /\ files = << >>
    /\ index = << >>
    /\ git = [stage |-> << >>, head |-> << >>, log |-> << >>]
    /\ created = << >>
    /\ lastCall = Call
    /\ failed = FALSE
    /\ calls = 0
    /\ probe = [fn |-> "statements", procs |-> [p \in Procs |-> IdleProc],
                serial |-> TRUE]
    /\ registry = <<>>
    /\ dirs = NoDirs

NextStatements ==
    \E p \in Procs :
        \/ LoadIndex(p)
        \/ \E title \in Titles, full_uuid \in Uuids :
                BeginCreate(p, title, full_uuid, Uuid(NumUuids))
        \/ \E hash_id \in HashArgs, old_path \in OldCodes,
              new_jd_id \in LogTargets :
                BeginMove(p, hash_id, old_path, new_jd_id)
        \/ \E io \in IoOutcomes : WriteFile(p, io)
        \/ \E io \in IoOutcomes : SaveIndex(p, io)
        \/ \E backend \in LogBackends : CommitFiles(p, backend)
        \/ ExitProc(p)

SpecStatements == InitStatements /\ [][NextStatements]_vars

(***************************************************************************)
(* RepoRegistry: the named repositories of ~/.memoflow/repos.json          *)
(***************************************************************************)
\* the variables of one repository's notes
noteVars == <<files, index, git, created, lastCall, failed, calls>>

\* paths as a caller writes them: the directories and a symbolic link to
\* one of them
RawPaths == Dirs \cup {"/w/link-a"}

\* Path.resolve()
path_resolve(path) == IF path = "/w/link-a" THEN "/w/a" ELSE path

\* Path.name of a resolved directory
path_name(path) == IF path = "/w/b" THEN "b" ELSE "a"

RepoNames == {"a", "b", "c"}

NoRepo == [name |-> "", path |-> ""]

add_repo_by_name_only(repos, name, path) ==
    LET p == path_resolve(path)
    IN  IF \E i \in DOMAIN repos : repos[i].name = name
        THEN repos
        ELSE Append(repos, [name |-> name, path |-> p])

add_repo(repos, name, path) ==
    LET p == path_resolve(path)
    IN  IF \E i \in DOMAIN repos : repos[i].name = name
        THEN repos
        ELSE IF \E i \in DOMAIN repos : path_resolve(repos[i].path) = p
        THEN repos
        ELSE Append(repos, [name |-> name, path |-> p])

get_by_name(repos, name) ==
    IF \E i \in DOMAIN repos : repos[i].name = name
    THEN repos[CHOOSE i \in DOMAIN repos :
                /\ repos[i].name = name
                /\ \A j \in 1..(i - 1) : repos[j].name # name]
    ELSE NoRepo

find_by_path(repos, path) ==
    LET p == path_resolve(path)
        hit(i) == path_resolve(repos[i].path) = p
    IN  IF \E i \in DOMAIN repos : hit(i)
        THEN repos[CHOOSE i \in DOMAIN repos :
                    hit(i) /\ \A j \in 1..(i - 1) : ~hit(j)]
        ELSE NoRepo

remove_by_name(repos, name) ==
    LET keep(r) == r.name # name
        left == SelectSeq(repos, keep)
    IN  [repos |-> left, out |-> Len(left) # Len(repos)]

remove_by_path_unresolved(repos, path) ==
    LET keep(r) == r.path # path
        left == SelectSeq(repos, keep)
    IN  [repos |-> left, out |-> Len(left) # Len(repos)]

remove_by_path(repos, path) ==
    LET p == path_resolve(path)
        keep(r) == path_resolve(r.path) # p
        left == SelectSeq(repos, keep)
    IN  [repos |-> left, out |-> Len(left) # Len(repos)]

AddRepo(name, path) ==
    /\ registry' = add_repo(registry, name, path)
    /\ probe' = [fn |-> "add_repo", added |-> registry' # registry]
    /\ UNCHANGED <<noteVars, dirs>>

RemoveByName(name) ==
    /\ registry' = remove_by_name(registry, name).repos
    /\ probe' = [fn |-> "remove_by_name",
                 out |-> remove_by_name(registry, name).out]
    /\ UNCHANGED <<noteVars, dirs>>

RemoveByPath(path) ==
    /\ registry' = remove_by_path(registry, path).repos
    /\ probe' = [fn |-> "remove_by_path",
                 out |-> remove_by_path(registry, path).out]
    /\ UNCHANGED <<noteVars, dirs>>

\* the registry on its own
NextRegistry ==
    \/ \E name \in RepoNames, path \in RawPaths : AddRepo(name, path)
    \/ \E name \in RepoNames : RemoveByName(name)
    \/ \E path \in RawPaths : RemoveByPath(path)

SpecRegistry == Init /\ [][NextRegistry]_vars

(***************************************************************************)
(* handle_init, handle_remove_repo and `repo rm`                           *)
(***************************************************************************)
\* the entries of a repository directory, each split on "-"
MfDir == <<".mf">>
SchemaFile == <<"schema.yaml">>
InboxDir == <<"00", "Inbox">>

Entries ==
    {MfDir, SchemaFile, InboxDir, <<"10", "20">>, <<"20", "30">>,
     <<"docs", "old">>, <<"2024", "01", "05">>}

\* str.isdigit()
isdigit(part) == part \in {"00", "01", "05", "10", "20", "30", "2024"}

\* what a directory may hold before the first command: it may not exist,
\* hold the user's own directories, a repository in use, or what is left of
\* one whose .mf and schema.yaml were deleted by hand
DirStates ==
    {NoDir,
     [exists |-> TRUE, entries |-> {<<"docs", "old">>, <<"2024", "01", "05">>},
      index |-> "absent"],
     [exists |-> TRUE,
      entries |-> {MfDir, SchemaFile, InboxDir, <<"10", "20">>,
                   <<"20", "30">>, <<"docs", "old">>},
      index |-> "notes"],
     [exists |-> TRUE, entries |-> {InboxDir, <<"10", "20">>},
      index |-> "absent"]}

handle_init(ds, repos, repo_root, force) ==
    LET repo_path == path_resolve(repo_root)
        made == IF ds[repo_path].exists THEN ds[repo_path]
                ELSE [exists |-> TRUE, entries |-> {}, index |-> "absent"]
        is_existing_repo ==
            made.entries \cap {MfDir, SchemaFile, InboxDir} # {}
    IN  IF is_existing_repo /\ ~force
        THEN [raised |-> TRUE, dirs |-> ds, repos |-> repos]
        ELSE [raised |-> FALSE,
              dirs |-> [ds EXCEPT ![repo_path] =
                  [exists |-> TRUE,
                   entries |-> made.entries
                                \cup {MfDir, SchemaFile, InboxDir},
                   index |-> IF made.index = "absent" THEN "empty"
                             ELSE made.index]],
              repos |-> add_repo(repos, path_name(repo_path), repo_path)]

\* the entries handle_remove_repo deletes
targets_named_only(entries) ==
    entries \cap {MfDir, SchemaFile, InboxDir}

targets(entries) ==
    (entries \cap {MfDir, SchemaFile, InboxDir})
        \cup {e \in entries \ {SchemaFile} :    \* item.is_dir()
                Len(e) = 2 /\ \A i \in 1..2 : isdigit(e[i])}

\* raised: "" when the call returns
handle_remove_repo(ds, repo_root, force) ==
    LET root == path_resolve(repo_root)
        t == targets(ds[root].entries)
    IN  IF ~ds[root].exists
        THEN [raised |-> "FileNotFoundError", dirs |-> ds, out |-> 0]
        ELSE IF t = {}
        THEN [raised |-> "", dirs |-> ds, out |-> 0]
        ELSE IF ~force
        THEN [raised |-> "PermissionError", dirs |-> ds, out |-> 0]
        ELSE [raised |-> "",
              dirs |-> [ds EXCEPT ![root] =
                  [exists |-> TRUE,
                   entries |-> @.entries \ t,
                   index |-> IF MfDir \in t THEN "absent" ELSE @.index]],
              out |-> Cardinality(t)]

\* get_repo_root of an absolute path
is_repo_root(ds, repo) ==
    ds[path_resolve(repo)].entries \cap {MfDir, SchemaFile} # {}

\* mf repo rm [NAME] [--repo PATH] [--yes]; exit is the exit code
repo_rm(ds, repos, name, repo, yes) ==
    LET same == [exit |-> 1, dirs |-> ds, repos |-> repos]
        found == name = None \/ get_by_name(repos, name) # NoRepo
        usable == name # None \/ is_repo_root(ds, repo)
        registered == IF name # None THEN get_by_name(repos, name)
                      ELSE find_by_path(repos, repo)
        repo_root == IF name # None THEN path_resolve(registered.path)
                     ELSE path_resolve(repo)
        removed == handle_remove_repo(ds, repo_root, TRUE)
    IN  IF ~yes \/ ~found \/ ~usable THEN same
        ELSE IF removed.raised # "" THEN same
        ELSE [exit |-> 0,
              dirs |-> removed.dirs,
              repos |-> IF registered # NoRepo
                        THEN remove_by_name(repos, registered.name).repos
                        ELSE remove_by_path(repos, repo_root).repos]

InitRepo(repo_root, force) ==
    LET out == handle_init(dirs, registry, repo_root, force)
    IN  /\ dirs' = out.dirs
        /\ registry' = out.repos
        /\ probe' = [fn |-> "handle_init", raised |-> out.raised]
        /\ UNCHANGED noteVars

RemoveRepo(repo_root, force) ==
    LET out == handle_remove_repo(dirs, repo_root, force)
    IN  /\ dirs' = out.dirs
        /\ probe' = [fn |-> "handle_remove_repo", raised |-> out.raised,
                     out |-> out.out]
        /\ UNCHANGED <<noteVars, registry>>

RepoRm(name, repo, yes) ==
    LET out == repo_rm(dirs, registry, name, repo, yes)
    IN  /\ dirs' = out.dirs
        /\ registry' = out.repos
        /\ probe' = [fn |-> "repo_rm", exit |-> out.exit]
        /\ UNCHANGED noteVars

InitRepos ==
    /\ files = << >>
    /\ index = << >>
    /\ git = [stage |-> << >>, head |-> << >>, log |-> << >>]
    /\ created = << >>
    /\ lastCall = Call
    /\ failed = FALSE
    /\ calls = 0
    /\ probe = NoProbe
    /\ registry = <<>>
    /\ dirs \in [Dirs -> DirStates]
    /\ Cardinality({d \in Dirs : dirs[d].exists}) <= MaxDirsAtStart

\* the names used next to the commands: a directory name or another
CliNames == {"a", "b"}

NextRepos ==
    \/ \E name \in CliNames, path \in RawPaths : AddRepo(name, path)
    \/ \E repo_root \in RawPaths, force \in BOOLEAN :
            InitRepo(repo_root, force)
    \/ \E repo_root \in RawPaths, force \in BOOLEAN :
            RemoveRepo(repo_root, force)
    \/ \E name \in CliNames \cup {None}, repo \in RawPaths,
          yes \in BOOLEAN :
            /\ name # None => repo = "/w/a"    \* repo is not looked at
            /\ RepoRm(name, repo, yes)

SpecRepos == InitRepos /\ [][NextRepos]_vars

(***************************************************************************)
(* Properties                                                              *)
(***************************************************************************)
\* the single path read_file parses for hash, when the hash resolves to one
PathOf(idx, hash) == idx[CHOOSE h \in resolve(idx, hash) : TRUE].path

\* C1: after successful create, move and update calls only, every index
\* entry refers to a note file that exists at the entry's path and whose
\* stored uuid is the entry's key.
C1_CacheInvariant ==
    ~failed =>
        \A h \in DOMAIN index :
            /\ index[h].path \in DOMAIN files
            /\ files[index[h].path].metadata["uuid"] = h

\* C2: once create has returned hash h, a parsable note file carrying h
\* exists on disk after every later create, move and update, whatever the
\* valid move target (same category directory included).
C2_NoteNeverDestroyed ==
    \A i \in 1..Len(created) :
        \E p \in DOMAIN files :
            /\ from_file(files, p).err = None
            /\ from_file(files, p).uuid = created[i]

\* C3: when move(hash, expectedOldCode, newCode) succeeds, the returned path
\* lies in the directory of newCode, the note file at that path stores
\* newCode, no file of the note remains at a different old path, and the
\* index entry of the hash holds the new path and newCode.
C3_MoveRelocates ==
    [][\A hash_id \in HashArgs, old_path \in OldCodes, new_jd_id \in NewCodes :
        (/\ lastCall'.op = "move"
         /\ lastCall'.result = "ok"
         /\ Move(hash_id, old_path, new_jd_id, "add-raises"))
        => /\ lastCall'.path[1] = get_directory_path(new_jd_id)
           /\ lastCall'.path \in DOMAIN files'
           /\ files'[lastCall'.path].metadata["id"] = new_jd_id
           /\ (PathOf(index, hash_id) # lastCall'.path
                    => PathOf(index, hash_id) \notin DOMAIN files')
           /\ index'[hash_id] = [path |-> lastCall'.path, id |-> new_jd_id]
      ]_vars

\* C4: move(hash, A, B) on a note whose stored code is A, with B failing the
\* taxonomy validation, raises invalid-path and leaves the note files, the
\* index and the repository (staged tree, head, log) unchanged: a move step
\* has that outcome unless it is no call with such arguments.  (The backend
\* plays no part in a move that raises before its commit step, so one backend
\* stands for all.)
C4_InvalidTargetRejected ==
    [][lastCall'.op = "move" =>
        \/ /\ lastCall'.result = "invalid-path"
           /\ files' = files
           /\ index' = index
           /\ git' = git
        \/ \A hash_id \in HashArgs, new_jd_id \in LogTargets :
            (/\ ~validate_path(new_jd_id)
             /\ read_file(files, index, hash_id).err = None)
            => ~Move(hash_id, read_file(files, index, hash_id).id, new_jd_id,
                     "commits")
      ]_vars

C4_Witness ==
    /\ lastCall.op = "move"
    /\ lastCall.result = "invalid-path"
    /\ Len(git.log) > 0
    /\ DOMAIN files # {}

\* C5: move(hash, expectedOldCode, newCode) on a note whose stored code
\* differs from expectedOldCode raises path-mismatch, for a valid and for an
\* invalid newCode, and leaves the note files, the index and the repository
\* unchanged: a move step has that outcome unless it is no call with such
\* arguments.  (One backend stands for all, as in C4.)
C5_StaleCallerRejected ==
    [][lastCall'.op = "move" =>
        \/ /\ lastCall'.result = "path-mismatch"
           /\ files' = files
           /\ index' = index
           /\ git' = git
        \/ \A hash_id \in HashArgs, old_path \in OldCodes,
              new_jd_id \in LogTargets :
            (/\ read_file(files, index, hash_id).err = None
             /\ read_file(files, index, hash_id).id # old_path)
            => ~Move(hash_id, old_path, new_jd_id, "commits")
      ]_vars

C5_Witness ==
    /\ lastCall.op = "move"
    /\ lastCall.result = "path-mismatch"
    /\ Len(git.log) > 0
    /\ DOMAIN files # {}

\* C6: the hashes returned by create are pairwise different and are exactly
\* the keys of the index, one key per created note: generate_hash never
\* returned a hash that was already a key.
C6_HashesUnique ==
    /\ \A i, j \in 1..Len(created) : i # j => created[i] # created[j]
    /\ DOMAIN index = {created[i] : i \in 1..Len(created)}
    /\ Cardinality(DOMAIN index) = Len(created)

C6_Witness ==
    /\ Len(created) >= 2
    /\ \E i \in 1..Len(created) : Len(created[i]) > HashLen

\* C7: reading by a prefix p returns the note of the single indexed hash that
\* starts with p, raises not-found when no indexed hash starts with p and
\* raises ambiguous when two or more do; nothing is modified.
C7_ResolveByPrefix ==
    [][\A p \in HashArgs :
        (lastCall'.op = "read" /\ Read(p))
        => LET matches == resolve(index, p)
           IN  /\ Cardinality(matches) = 1
                    => /\ lastCall'.result = "ok"
                       /\ lastCall'.path = PathOf(index, p)
                       /\ lastCall'.path \in DOMAIN files
               /\ matches = {} => lastCall'.result = "not-found"
               /\ Cardinality(matches) >= 2 => lastCall'.result = "ambiguous"
               /\ UNCHANGED <<files, index, git>>
      ]_vars

\* C8: the uuid stored in a note never changes: a note file (followed by its
\* file name, which move keeps) stores after every move and update the uuid
\* it stored before.
C8_HashImmutable ==
    [][\A p \in DOMAIN files, q \in DOMAIN files' :
        p[2] = q[2] => files'[q].metadata["uuid"] = files[p].metadata["uuid"]
      ]_vars

\* C9: when the commit step of create, move or update raises, the call
\* still returns normally, the note files and the index are those of the
\* completed mutation, and only the commit is missing from the log.
C9_CommitFailureTolerated ==
    [][/\ \A title \in Titles, full_uuid \in Uuids, redraw \in Uuids :
            LET good == create_file(files, index, git, None, title, "body",
                                    full_uuid, redraw, "commits",
                                    Len(created) + 1)
            IN  (/\ lastCall'.op = "create"
                 /\ Create(None, title, full_uuid, redraw, "commit-raises")
                 /\ good.result = "ok")
                => /\ lastCall'.result = "ok"
                   /\ lastCall'.commit = "raised"
                   /\ lastCall'.path = good.path
                   /\ files' = good.files
                   /\ index' = good.index
                   /\ lastCall'.path \in DOMAIN files'
                   /\ created' = Append(created, good.hash)
                   /\ git'.log = git.log
       /\ \A hash_id \in HashArgs :
            LET good == update_file(files, index, git, hash_id, None,
                                    "type=task", "commits")
            IN  (/\ lastCall'.op = "update"
                 /\ Update(hash_id, None, "type=task", "commit-raises")
                 /\ good.result = "ok")
                => /\ lastCall'.result = "ok"
                   /\ lastCall'.commit = "raised"
                   /\ lastCall'.path = good.path
                   /\ files' = good.files
                   /\ files'[lastCall'.path].metadata["type"] = "task"
                   /\ index' = good.index
                   /\ git'.log = git.log
       /\ \A hash_id \in HashArgs, old_path \in OldCodes,
             new_jd_id \in LogTargets, backend \in LogBackends :
            (/\ lastCall'.op = "move"
             /\ lastCall'.commit # "none"
             /\ Move(hash_id, old_path, new_jd_id, backend))
            => /\ lastCall'.result = "ok"
               /\ lastCall'.commit = "raised"
               /\ lastCall'.path[1] = get_directory_path(new_jd_id)
               /\ index'[hash_id] = [path |-> lastCall'.path, id |-> new_jd_id]
               /\ PathOf(index, hash_id) # lastCall'.path
                    => /\ PathOf(index, hash_id) \notin DOMAIN files'
                       /\ lastCall'.path \in DOMAIN files'
               /\ git'.log = git.log
      ]_vars

C9_Witness ==
    /\ lastCall.op = "create"
    /\ lastCall.commit = "raised"
    /\ lastCall.result = "ok"
    /\ lastCall.path \in DOMAIN files
    /\ Len(git.log) > 0

\* C10: with a backend that commits, every successful move adds exactly one
\* commit to the log, of type refactor, whose change set holds the note file
\* at its new path and the removal of the file at its old path.
C10_MoveCommitsOnce ==
    [][\A hash_id \in HashArgs, old_path \in OldCodes, new_jd_id \in LogTargets :
        (/\ lastCall'.op = "move"
         /\ lastCall'.result = "ok"
         /\ Move(hash_id, old_path, new_jd_id, "commits"))
        => /\ Len(git'.log) = Len(git.log) + 1
           /\ git'.log[Len(git'.log)].type = "refactor"
           /\ lastCall'.path \in git'.log[Len(git'.log)].changes.changed
           /\ PathOf(index, hash_id) \in git'.log[Len(git'.log)].changes.removed
      ]_vars

\* C11: a successful create adds exactly one note file, in the inbox, with
\* status open, the fresh hash and a code PREFIX-00.NN of two item digits;
\* it registers hash -> (that path, that code) and leaves every other file
\* and entry alone; on a backend that commits it adds exactly one commit, of
\* type feat and scope "new".
C11_CreateAddsInboxNote ==
    [][\A file_type \in FileTypes, title \in Titles, full_uuid \in Uuids,
         redraw \in Uuids, backend \in LogBackends :
        (/\ lastCall'.op = "create"
         /\ lastCall'.result = "ok"
         /\ Create(file_type, title, full_uuid, redraw, backend))
        => LET file_path == lastCall'.path
               hash_id == created'[Len(created')]
               temp_id == files'[file_path].metadata["id"]
           IN  /\ file_path \notin DOMAIN files
               /\ DOMAIN files' = (DOMAIN files) \cup {file_path}
               /\ \A q \in DOMAIN files : files'[q] = files[q]
               /\ file_path[1] = Inbox
               /\ files'[file_path].metadata["status"] = "open"
               /\ hash_id \notin DOMAIN index
               /\ files'[file_path].metadata["uuid"] = hash_id
               /\ temp_id.prefix = user_prefix
               /\ temp_id.area = <<0, 0>>
               /\ Len(temp_id.item) = 2
               /\ index' = Put(index, hash_id,
                               [path |-> file_path, id |-> temp_id])
               /\ backend = "commits"
                    => /\ Len(git'.log) = Len(git.log) + 1
                       /\ git'.log[Len(git'.log)].type = "feat"
                       /\ git'.log[Len(git'.log)].scope = ScopeNew
      ]_vars

\* C12: update leaves the index as it was and the note file at its path; of
\* that one note only the patched metadata fields and, when a content patch
\* is given, the body change; every other file is untouched; an update that
\* raises changes nothing.
C12_UpdateFrame ==
    [][\A hash_id \in HashArgs, content \in ContentPatches,
         patch \in PatchNames :
        (/\ lastCall'.op = "update"
         /\ Update(hash_id, content, patch, "add-raises"))
        => /\ index' = index
           /\ DOMAIN files' = DOMAIN files
           /\ lastCall'.result # "ok" => files' = files
           /\ lastCall'.result = "ok" =>
                LET file_path == lastCall'.path
                    old == files[file_path]
                    new == files'[file_path]
                IN  /\ file_path = PathOf(index, hash_id)
                    /\ \A q \in (DOMAIN files) \ {file_path} :
                            files'[q] = files[q]
                    /\ new.content = IF content # None THEN content
                                     ELSE old.content
                    /\ DOMAIN new.metadata =
                            (DOMAIN old.metadata) \cup DOMAIN PatchOf(patch)
                    /\ \A k \in DOMAIN new.metadata :
                            new.metadata[k] = IF k \in DOMAIN PatchOf(patch)
                                              THEN PatchOf(patch)[k]
                                              ELSE old.metadata[k]
      ]_vars

C12_Witness ==
    /\ lastCall.op = "update"
    /\ lastCall.result = "ok"
    /\ files[lastCall.path].content = "edited"
    /\ "type" \in DOMAIN files[lastCall.path].metadata
    /\ \E q \in DOMAIN files : q # lastCall.path /\ files[q].content = "body"

\* C13: right after a rebuild the index has exactly one entry per parsable
\* note file, keyed by the uuid the file stores and holding the file's path
\* and stored code, and every entry is the entry of such a file.
C13_RebuildMatchesDisk ==
    lastCall.op = "rebuild" =>
        /\ \A p \in DOMAIN files :
                from_file(files, p).err = None
                => \E h \in DOMAIN index :
                    /\ index[h].path = p
                    /\ h = from_file(files, p).uuid
                    /\ index[h].id = from_file(files, p).id
                    /\ \A h2 \in DOMAIN index : index[h2].path = p => h2 = h
        /\ \A h \in DOMAIN index :
                /\ from_file(files, index[h].path).err = None
                /\ from_file(files, index[h].path).uuid = h

\* C14: a note captured with no kind is in the results of the query for
\* status open, with status open and no type; a note retyped to task is in
\* the results of the query for type task and not in those for type
\* untyped; and a note that a query for type task returns is returned by
\* that query, and not by the one for untyped, after every later call.
C14_CaptureRetypeQuery ==
    [][/\ \A title \in Titles, full_uuid \in Uuids, redraw \in Uuids :
            (/\ lastCall'.op = "create"
             /\ lastCall'.result = "ok"
             /\ Create(None, title, full_uuid, redraw, "add-raises"))
            => \E m \in query(files', "open", None) :
                /\ m.uuid = created'[Len(created')]
                /\ m.status = "open"
                /\ m.type = None
       /\ \A hash_id \in HashArgs :
            (/\ lastCall'.op = "update"
             /\ lastCall'.result = "ok"
             /\ Update(hash_id, None, "type=task", "add-raises"))
            => /\ \E m \in query(files', None, "task") :
                    m.file_path = lastCall'.path
               /\ \A m \in query(files', None, "untyped") :
                    m.file_path # lastCall'.path
       /\ \A i \in 1..Len(created) :
            (\E m \in query(files, None, "task") : m.uuid = created[i])
            => /\ \E m \in query(files', None, "task") : m.uuid = created[i]
               /\ \A m \in query(files', None, "untyped") :
                    m.uuid # created[i]
      ]_vars

\* C15: a note written to its file and read back has the hash, location
\* code, title, status, kind and tags it was written with, for every kind
\* of the closed set or none and for every tag list, the empty one included.
C15_RoundTrip ==
    probe.fn = "round-trip" =>
        /\ probe.out.err = None
        /\ probe.out.uuid = probe.memo.uuid
        /\ probe.out.id = probe.memo.id
        /\ probe.out.title = probe.memo.title
        /\ probe.out.status = probe.memo.status
        /\ probe.out.type = probe.memo.type
        /\ probe.out.tags = probe.memo.tags

C15_Witness ==
    /\ probe.fn = "round-trip"
    /\ probe.memo.type = None
    /\ probe.memo.tags = <<>>
    /\ probe.out.err = None

\* C16: validate_path(code) is true exactly when code is PREFIX-AREA.ITEM
\* and nothing more, with two or three item digits, PREFIX is the prefix of
\* the repository, AREA is a declared area and the value AREA.ITEM lies in
\* a category range of that area, bounds included.
C16_ValidateLocation ==
    probe.fn = "validate_path" =>
        (probe.out <=>
            /\ probe.path.tail = ""
            /\ probe.path.prefix = user_prefix
            /\ Len(probe.path.area) >= 1
            /\ Len(probe.path.item) \in {2, 3}
            /\ \E a \in 1..Len(areas) :
                /\ areas[a].id = SeqToNat(probe.path.area)
                /\ \E c \in 1..Len(areas[a].categories) :
                    LET range == areas[a].categories[c].range
                        value == SeqToNat(probe.path.area) * 1000
                                 + SeqToNat(probe.path.item)
                                   * (IF Len(probe.path.item) = 2 THEN 10 ELSE 1)
                    IN  range[1] <= value /\ value <= range[2])

\* C17: generate_next_id(area, category) returns the lowest value of the
\* category's grid (range start, then steps of 0.001 when the range start
\* has three decimals, else of 0.01, up to the range end) that is not the
\* item value of a note in the category's directory, and returns none
\* exactly when every value of the grid is in use.
C17_NextFreeCode ==
    (/\ probe.fn = "generate_next_id"
     /\ has_area(probe.area_id)
     /\ has_category(get_area(probe.area_id), probe.category_id))
    => LET range == get_category(get_area(probe.area_id),
                                 probe.category_id).range
           step == IF range[1] % 10 # 0 THEN 1 ELSE 10
           grid == {v \in range[1]..range[2] : (v - range[1]) % step = 0}
           in_use == {ItemValue(code) : code \in
                        {c \in probe.codes :
                            range[1] <= ItemValue(c) /\ ItemValue(c) <= range[2]}}
           free == grid \ in_use
       IN  /\ (probe.out = NoCode) <=> (free = {})
           /\ free # {} =>
                /\ probe.out.prefix = user_prefix
                /\ ItemValue(probe.out) \in free
                /\ \A v \in free : ItemValue(probe.out) <= v

\* C18: every call of generate_hash ends, whatever the index holds and
\* whatever uuid4 draws: it makes at most MaxAttempts retries and then
\* returns a hash that is not a key of the index or raises the
\* generation-exhausted error; the hash it returns is never a key.
C18_GenerateHashTerminates ==
    /\ (probe.fn = "generate_hash")
            ~> (probe.fn = "generate_hash" /\ probe.pc \in {"returned", "raised"})
    /\ [](probe.fn = "generate_hash" =>
            /\ probe.attempts <= MaxAttempts
            /\ probe.pc = "returned" => probe.short_hash \notin probe.keys
            /\ probe.pc = "raised" => probe.attempts = MaxAttempts)

C18_Witness ==
    /\ probe.fn = "generate_hash"
    /\ probe.pc = "raised"
    /\ probe.attempts = MaxAttempts

\* C19: every commit added to the log holds exactly the changes to the
\* files the call listed (for a capture the note file and the index file,
\* for an update the note file): each listed file that differs from the
\* head is in the change set, nothing is removed, and no other file is in
\* the commit, also after calls whose commit failed.
C19_CommitHoldsGivenFiles ==
    [][Len(git'.log) = Len(git.log) + 1
        => LET given == IF lastCall'.op = "create"
                        THEN {lastCall'.path, IndexPath}
                        ELSE {lastCall'.path}
               disk == Disk(files', index')
               changes == git'.log[Len(git'.log)].changes
           IN  /\ lastCall'.op \in {"create", "update"}
               /\ changes.changed =
                    {p \in given \cap DOMAIN disk :
                        p \notin DOMAIN git.head \/ git.head[p] # disk[p]}
               /\ changes.removed = {}
      ]_vars

\* C20: parse_timeline returns one record per commit made in the window
\* (from one week or one day ago up to the until day, if one is given),
\* newest first; the record of a commit whose message is the header
\* type(scope): message, with or without a body, has that type, scope and
\* message, and the record of any other message has type chore and scope
\* unknown.
C20_ParseHistory ==
    probe.fn = "parse_timeline" =>
        LET log == probe.log
            out == probe.out
            from == Now - (IF probe.since = "1 week ago" THEN 7 ELSE 1)
            window == {i \in 1..Len(log) :
                        /\ log[i].committed >= from
                        /\ probe.until.given
                                => log[i].committed <= probe.until.day}
        IN  /\ Len(out) = Cardinality(window)
            /\ {out[k].hash : k \in 1..Len(out)} = window
            /\ \A k \in 1..Len(out), l \in 1..Len(out) :
                    k < l => out[k].timestamp >= out[l].timestamp
            /\ \A k \in 1..Len(out) :
                    LET message == log[out[k].hash].message
                    IN  /\ out[k].timestamp = log[out[k].hash].committed
                        /\ \A h \in Headers, body \in Bodies :
                                message = Compose(h.type, h.scope, h.message)
                                            \o body
                                => /\ out[k].type = h.type
                                   /\ out[k].scope = h.scope
                                   /\ out[k].message = h.message
                        /\ message \in OtherMessages
                                => /\ out[k].type = chore
                                   /\ out[k].scope = unknown

\* C21: every commit in the log has a type among feat, refactor, docs and
\* chore, and parse_timeline, reading the log, gives for every commit the
\* type, the scope and the message that were passed to auto_commit.
C21_MessageRoundTrip ==
    LET out == parse_timeline(RepoLog(git.log), "1 week ago", NoUntil)
    IN  /\ Len(out) = Len(git.log)
        /\ \A k \in 1..Len(out) :
                LET commit == git.log[out[k].hash]
                IN  /\ commit.type \in {"feat", "refactor", "docs", "chore"}
                    /\ out[k].type = CommitTypeValue(commit.type)
                    /\ out[k].scope = ScopeText(commit.scope)
                    /\ out[k].message = MessageText(commit.message)

\* C22: a push that is not enabled returns False and contacts no remote; an
\* enabled push returns True only when the remote took the commits, and
\* False for every failure; no push changes a note file, the index or the
\* commit log, and no push makes a call on the store count as failed.
C22_PushBestEffort ==
    [][(probe' # probe /\ probe'.fn = "push")
        => /\ UNCHANGED <<files, index, git, failed>>
           /\ ~probe'.auto_push
                => /\ probe'.out.result = FALSE
                   /\ ~probe'.out.contacted
           /\ probe'.auto_push
                => (probe'.out.result <=> probe'.outcome = "pushed")
      ]_vars

C24_UpdatePath ==
    probe.fn = "update_path" =>
        LET idx == probe.idx
            h == probe.hash_id
            out == probe.out
        IN  /\ out.raised <=> h \notin DOMAIN idx
            /\ out.saved = out.index
            /\ h \notin DOMAIN idx => out.index = idx
            /\ h \in DOMAIN idx
                => /\ DOMAIN out.index = DOMAIN idx
                   /\ \A k \in DOMAIN idx \ {h} : out.index[k] = idx[k]
                   /\ out.index[h].path = probe.new_path
                   /\ out.index[h].id =
                        IF probe.new_jd_id = NoCode THEN idx[h].id
                        ELSE probe.new_jd_id

\* an entry of an index of several moved without a code
C24_Witness ==
    /\ probe.fn = "update_path"
    /\ probe.hash_id \in DOMAIN probe.idx
    /\ Cardinality(DOMAIN probe.idx) > 1
    /\ probe.new_jd_id = NoCode
    /\ probe.out.index[probe.hash_id].path # probe.idx[probe.hash_id].path

\* C25: no call writes over the file of another note: a create leaves every
\* file that was on disk as it was, and the only file a move may write over
\* is the file of the note it moves.
C25_NoFileOverwritten ==
    [][/\ lastCall'.op = "create"
            => \A p \in DOMAIN files :
                    p \in DOMAIN files' /\ files'[p] = files[p]
       /\ \A hash_id \in HashArgs, old_path \in OldCodes,
             new_jd_id \in LogTargets :
            (lastCall'.op = "move"
                /\ Move(hash_id, old_path, new_jd_id, "commits"))
            => \A p \in (DOMAIN files) \cap (DOMAIN files') :
                    files'[p] # files[p]
                    => /\ resolve(index, hash_id) # {}
                       /\ p = index[CHOOSE h \in resolve(index, hash_id) :
                                        TRUE].path
      ]_vars

\* C26: at every moment no two registered repositories have the same name
\* and no two have the same resolved path; add_repo with a name that is
\* registered, whatever the path, or with a path that resolves to a
\* registered one leaves the registry as it was.
C26_RegistryUnique ==
    [][/\ \A i \in DOMAIN registry', j \in DOMAIN registry' :
            i # j => /\ registry'[i].name # registry'[j].name
                     /\ path_resolve(registry'[i].path)
                            # path_resolve(registry'[j].path)
       /\ \A name \in RepoNames, path \in RawPaths :
            (/\ AddRepo(name, path)
             /\ \E i \in DOMAIN registry :
                    \/ registry[i].name = name
                    \/ path_resolve(registry[i].path) = path_resolve(path))
            => registry' = registry
      ]_vars

\* two repositories are registered and an add_repo was turned down
C26_Witness ==
    /\ probe.fn = "add_repo"
    /\ ~probe.added
    /\ Len(registry) = 2
    /\ path_resolve("/w/link-a") \in {registry[i].path : i \in DOMAIN registry}

\* the entries of a registry, as a set
Registered(repos) == {repos[i] : i \in DOMAIN repos}

\* C27: remove_by_name and remove_by_path return True exactly when an entry
\* with that name, or with that resolved path, is registered; afterwards no
\* removed entry is found by its name or by its path, the other entries are
\* the ones that were there, and the same removal once more returns False
\* and changes nothing.
C27_Remove ==
    [][/\ \A name \in RepoNames :
            RemoveByName(name) =>
                LET gone == {r \in Registered(registry) : r.name = name}
                IN  /\ probe'.out <=> gone # {}
                    /\ \A r \in gone :
                        /\ get_by_name(registry', r.name) = NoRepo
                        /\ find_by_path(registry', r.path) = NoRepo
                    /\ Registered(registry') = Registered(registry) \ gone
                    /\ Len(registry') = Len(registry) - Cardinality(gone)
                    /\ remove_by_name(registry', name)
                        = [repos |-> registry', out |-> FALSE]
       /\ \A path \in RawPaths :
            RemoveByPath(path) =>
                LET gone == {r \in Registered(registry) :
                                path_resolve(r.path) = path_resolve(path)}
                IN  /\ probe'.out <=> gone # {}
                    /\ \A r \in gone :
                        /\ get_by_name(registry', r.name) = NoRepo
                        /\ find_by_path(registry', r.path) = NoRepo
                        /\ find_by_path(registry', path) = NoRepo
                    /\ Registered(registry') = Registered(registry) \ gone
                    /\ Len(registry') = Len(registry) - Cardinality(gone)
                    /\ remove_by_path(registry', path)
                        = [repos |-> registry', out |-> FALSE]
      ]_vars

\* a removal by path that returned True and left two repositories
C27_Witness ==
    /\ probe.fn = "remove_by_path"
    /\ probe.out
    /\ Len(registry) = 2

\* what the teardown is to delete of a directory: .mf, schema.yaml,
\* 00-Inbox and the directories named by two numbers
TornDown(d) ==
    \A e \in d.entries :
        /\ e \notin {MfDir, SchemaFile, InboxDir}
        /\ ~(Len(e) = 2 /\ isdigit(e[1]) /\ isdigit(e[2]))

\* C28: handle_remove_repo with force on a directory that exists returns
\* and leaves in it no .mf, no schema.yaml, no 00-Inbox and no directory
\* named by two numbers; `repo rm --yes` of a registered name whose
\* directory exists, or of the path of a repository, does the same and
\* leaves no registry entry with that name or that path; with force off
\* and such an entry present handle_remove_repo raises and directories and
\* registry stay as they were, as they do under `repo rm` without --yes.
C28_Teardown ==
    [][/\ \A repo_root \in RawPaths :
            (/\ probe'.fn = "handle_remove_repo"
             /\ dirs[path_resolve(repo_root)].exists
             /\ RemoveRepo(repo_root, TRUE))
            => /\ probe'.raised = ""
               /\ TornDown(dirs'[path_resolve(repo_root)])
               /\ registry' = registry
       /\ \A repo_root \in RawPaths :
            (/\ probe'.fn = "handle_remove_repo"
             /\ ~TornDown(dirs[path_resolve(repo_root)])
             /\ RemoveRepo(repo_root, FALSE))
            => /\ probe'.raised = "PermissionError"
               /\ dirs' = dirs
               /\ registry' = registry
       /\ \A name \in CliNames \cup {None}, repo \in RawPaths :
            (probe'.fn = "repo_rm" /\ (name # None => repo = "/w/a")) =>
            /\ RepoRm(name, repo, FALSE)
                => probe'.exit = 1 /\ dirs' = dirs /\ registry' = registry
            /\ \A r \in Registered(registry) :
                (/\ name = r.name
                 /\ dirs[path_resolve(r.path)].exists
                 /\ RepoRm(name, repo, TRUE))
                => /\ probe'.exit = 0
                   /\ TornDown(dirs'[path_resolve(r.path)])
                   /\ get_by_name(registry', name) = NoRepo
                   /\ find_by_path(registry', r.path) = NoRepo
            /\ (/\ name = None
                /\ dirs[path_resolve(repo)].entries
                        \cap {MfDir, SchemaFile} # {}
                /\ RepoRm(name, repo, TRUE))
                => /\ probe'.exit = 0
                   /\ TornDown(dirs'[path_resolve(repo)])
                   /\ find_by_path(registry', repo) = NoRepo
      ]_vars

\* after a `repo rm --yes` a directory holds the user's own directory and
\* nothing of the repository that was in it, and another repository is
\* still registered
C28_Witness ==
    /\ probe.fn = "repo_rm"
    /\ probe.exit = 0
    /\ \E d \in Dirs : dirs[d].entries = {<<"docs", "old">>}
    /\ Len(registry) = 1

\* C29: an init that returns on a directory without .mf, schema.yaml and
\* 00-Inbox leaves the directory with all three and an empty hash index,
\* and the registry with an entry under the directory's name whose path is
\* the directory; an init without force on a directory that has one of
\* the three raises and leaves directories and registry as they were.
C29_InitRegisters ==
    [][\A repo_root \in RawPaths, force \in BOOLEAN :
        (probe'.fn = "handle_init" /\ InitRepo(repo_root, force)) =>
            LET p == path_resolve(repo_root)
                initialized ==
                    dirs[p].entries \cap {MfDir, SchemaFile, InboxDir} # {}
            IN  /\ (~initialized /\ ~probe'.raised)
                    => /\ {MfDir, SchemaFile, InboxDir}
                            \subseteq dirs'[p].entries
                       /\ dirs'[p].index = "empty"
                       /\ [name |-> path_name(p), path |-> p]
                            \in Registered(registry')
                       /\ get_by_name(registry', path_name(p)).path = p
                /\ (initialized /\ ~force)
                    => /\ probe'.raised
                       /\ dirs' = dirs
                       /\ registry' = registry
      ]_vars

\* the place of the category that owns a code: the first area with the
\* code's area number and in it the first category, in declared order,
\* whose range holds the code's value; <<>> when there is none
Owner(schema, code) ==
    LET value == ItemValue(code)
        own == {<<a, c>> \in (DOMAIN schema.areas) \X (1..3) :
                    /\ schema.areas[a].id = SeqToNat(code.area)
                    /\ \A b \in 1..(a - 1) : schema.areas[b].id # schema.areas[a].id
                    /\ c \in DOMAIN schema.areas[a].categories
                    /\ contains(schema.areas[a].categories[c], value)
                    /\ \A d \in 1..(c - 1) :
                        ~contains(schema.areas[a].categories[d], value)}
    IN  IF own = {} THEN <<>> ELSE CHOOSE o \in own : TRUE

\* C30: for a code validate_path accepts, get_directory_path returns, and
\* returns the directory named by the area and by the range of the first
\* category in declared order that holds the code's value, also where
\* ranges overlap; every other accepted code with the same owning
\* category gets the same directory.
C30_DirectoryOfOwner ==
    (probe.fn = "get_directory_path" /\ probe.valid) =>
        LET schema == probe.schema
            o == Owner(schema, probe.jd_id)
        IN  /\ probe.out # <<>>
            /\ o # <<>>
            /\ LET area == schema.areas[o[1]]
                   category == area.categories[o[2]]
               IN  probe.out = <<area.id, area.id + 10,
                                 category.range[1], category.range[2]>>
            /\ \A other \in PathInputs :
                (/\ Schema_validate_path(schema, other)
                 /\ Owner(schema, other) = o)
                => Schema_get_directory_path(schema, other) = probe.out

\* an accepted code whose value lies in the ranges of two categories
C30_Witness ==
    /\ probe.fn = "get_directory_path"
    /\ probe.valid
    /\ probe.out # <<>>
    /\ LET area == Schema_get_area(probe.schema, SeqToNat(probe.jd_id.area))
       IN  Cardinality({c \in DOMAIN area.categories :
                contains(area.categories[c], ItemValue(probe.jd_id))}) > 1

\* C31: in create and in move the commit is attempted only after the call
\* has written its file and then saved the index with its entry; the file
\* is written before the index is touched; a file write or an index save
\* that raises ends the call with the error, leaves the index file as it
\* was and is followed by no commit attempt of that call.
C31_WriteIndexCommit ==
    [][\A p \in Procs :
        LET me == probe.procs[p]
            after == probe'.procs[p]
        IN  /\ (\E backend \in LogBackends : CommitFiles(p, backend))
                => /\ me.steps = <<"write", "index">>
                   /\ me.raised = "none"
            /\ \A io \in IoOutcomes :
                SaveIndex(p, io)
                => /\ me.steps = <<"write">>
                   /\ IF io = "ok" /\ me.hash_id \in DOMAIN me.mem \cup
                            (IF me.op = "create" THEN {me.hash_id} ELSE {})
                      THEN /\ after.pc = "commit"
                           /\ me.hash_id \in DOMAIN index'
                           /\ index'[me.hash_id] =
                                [path |-> me.file_path, id |-> me.jd_id]
                      ELSE /\ after.pc = "raised"
                           /\ index' = index
            /\ \A io \in IoOutcomes :
                WriteFile(p, io)
                => /\ me.steps = << >>
                   /\ index' = index
                   /\ io = "raises" => after.pc = "raised" /\ files' = files
            /\ me.pc = "raised"
                => /\ "commit" \notin {me.steps[i] : i \in DOMAIN me.steps}
                   /\ after \in {me, IdleProc}
                   /\ after # me => git' = git
      ]_vars

\* one call has written, saved and committed; another was ended by the
\* error of its index update after its file was written
C31_Witness ==
    /\ probe.fn = "statements"
    /\ \E p \in Procs, q \in Procs :
        /\ probe.procs[p].pc = "returned"
        /\ probe.procs[p].steps = <<"write", "index", "commit">>
        /\ probe.procs[q].pc = "raised"
        /\ probe.procs[q].raised = "index"
        /\ probe.procs[q].steps = <<"write">>


(***************************************************************************)
(* Completion on a backend that commits or fails to                        *)
(***************************************************************************)
\* captures, moves and completion; the commit of a completion succeeds or
\* raises
NextFinish ==
    \/ \E file_type \in {None, "task"}, title \in Titles, full_uuid \in Uuids :
            Create(file_type, title, full_uuid, Uuid(NumUuids), "commits")
    \/ \E hash_id \in HashArgs, old_path \in OldCodes, new_jd_id \in LogTargets :
            Move(hash_id, old_path, new_jd_id, "commits")
    \/ \E hash \in HashArgs, backend \in LogBackends : Finish(hash, backend)

SpecFinish == Init /\ [][NextFinish]_vars

\* C32: mark_finished on a note that is already done returns False, writes no
\* file and makes no commit; on any other note it sets the status key of that
\* one file to done, leaves every other key, the body, every other file and
\* the HashIndex as they were, and its commit, when the backend makes it, is
\* one new entry of type feat scoped to the hash that was passed
C32_FinishFrame ==
    [][\A hash \in HashArgs, backend \in LogBackends :
        LET memo == read_file(files, index, hash)
            p == memo.file_path
        IN  (Finish(hash, backend) /\ memo.err = None) =>
            IF memo.status = "done"
            THEN /\ lastCall'.result = "already-done"
                 /\ files' = files
                 /\ git' = git
                 /\ index' = index
            ELSE /\ lastCall'.result # "already-done"
                 /\ index' = index
                 /\ DOMAIN files' = DOMAIN files
                 /\ \A q \in DOMAIN files \ {p} : files'[q] = files[q]
                 /\ files'[p].content = files[p].content
                 /\ DOMAIN files'[p].metadata = DOMAIN files[p].metadata
                 /\ \A k \in DOMAIN files[p].metadata \ {"status"} :
                        files'[p].metadata[k] = files[p].metadata[k]
                 /\ files'[p].metadata.status = "done"
                 /\ IF backend = "commits"
                    THEN /\ Len(git'.log) = Len(git.log) + 1
                         /\ SubSeq(git'.log, 1, Len(git.log)) = git.log
                         /\ git'.log[Len(git'.log)].type = "feat"
                         /\ git'.log[Len(git'.log)].scope = ScopeHash(hash)
                    ELSE git'.log = git.log]_vars

\* a second completion of a note was refused after the first was committed
C32_Witness ==
    /\ lastCall.op = "finish"
    /\ lastCall.result = "already-done"
    /\ \E i \in 1..Len(git.log) :
            /\ git.log[i].type = "feat"
            /\ git.log[i].scope # ScopeNew

\* C33: a commit that fails after the status was written does not make
\* mark_finished report failure: it returns success as create, move and update
\* do, and the note stays done
C33_FinishSurvivesCommitFailure ==
    (lastCall.op = "finish" /\ lastCall.commit = "raised") =>
        /\ lastCall.result = "ok"
        /\ from_file(files, lastCall.path).status = "done"


\* C34: when two processes create notes and each was started only after the
\* other had ended, every note that was created has its entry in the index
\* file, one key per create; only processes that run side by side can lose
\* an entry
C34_SerializedKeepsEntries ==
    (probe.fn = "statements" /\ probe.serial) =>
        /\ \A i \in 1..Len(created) : created[i] \in DOMAIN index
        /\ Cardinality(DOMAIN index) >= Len(created)

\* two creates ran side by side, both returned, and the note of one of them
\* is on disk while the index file has lost its entry
C34_Witness ==
    /\ probe.fn = "statements"
    /\ ~probe.serial
    /\ Len(created) = 2
    /\ \A p \in Procs : probe.procs[p].op = "create"
                         /\ probe.procs[p].pc = "returned"
    /\ \E i \in 1..2, q \in DOMAIN files :
            /\ files[q].metadata.uuid = created[i]
            /\ created[i] \notin DOMAIN index


\* C35: every key of the HashIndex resolves to exactly one entry, its own: no
\* indexed hash is a proper prefix of another, also after generate_hash
\* extended a colliding hash beyond six characters
C35_OwnHashResolves ==
    \A h \in DOMAIN index : resolve(index, h) = {h}


\* C36: create, move and update never remove a key of the HashIndex: every
\* call keeps all keys, a successful create adds exactly one new key, and a
\* move, an update or a call that fails adds none
C36_KeysOnlyGrow ==
    [][/\ DOMAIN index \subseteq DOMAIN index'
       /\ Cardinality(DOMAIN index') =
            Cardinality(DOMAIN index) +
            (IF lastCall'.op = "create" /\ lastCall'.result = "ok"
             THEN 1 ELSE 0)]_vars

\* a note was moved while the index held the keys of two creates
C36_Witness ==
    /\ lastCall.op = "move"
    /\ lastCall.result = "ok"
    /\ Cardinality(DOMAIN index) = 2
    /\ Len(created) = 2


(***************************************************************************)
(* generate_next_id on the taxonomy a schema.yaml declares                 *)
(***************************************************************************)
\* the notes with the given codes, each in the directory move_file puts a
\* note of its code in
FiledIn(schema, codes) ==
    [p \in {<<Schema_get_directory_path(schema, code),
              <<Digits(ItemValue(code), HashLen), <<>>>> >> : code \in codes} |->
        LET code == CHOOSE code \in codes :
                        p[2][1] = Digits(ItemValue(code), HashLen)
        IN  to_markdown(Memo(Digits(ItemValue(code), HashLen), code, None,
                             <<>>, "open", 1, <<>>, "body"))]

\* the move action of the status view: generate_next_id(area_id, category_id)
NextFreeCode(schema, area_id, category_id, codes) ==
    /\ probe = NoProbe
    /\ probe' = [fn |-> "next_free_code", schema |-> schema,
                 area_id |-> area_id, category_id |-> category_id,
                 codes |-> codes,
                 out |-> Schema_generate_next_id(schema, area_id, category_id,
                                                 FiledIn(schema, codes))]
    /\ UNCHANGED storeVars

NextNextFree ==
    \E schema \in Schemas, area_id \in {10, 20, 30}, category_id \in {1, 2, 3} :
        \E codes \in
            IF /\ Schema_has_area(schema, area_id)
               /\ has_category(Schema_get_area(schema, area_id), category_id)
            THEN CodeSets(get_category(Schema_get_area(schema, area_id),
                                       category_id).range[1])
            ELSE {{}} :
                NextFreeCode(schema, area_id, category_id, codes)

SpecNextFree == Init /\ [][NextNextFree]_vars

\* C37: a code that generate_next_id returns passes validate_path, its value
\* lies in the range of the requested category, get_directory_path maps it to
\* the directory that was scanned, and no note that parses in that directory
\* carries it
C37_FreeCodeIsFree ==
    (probe.fn = "next_free_code" /\ probe.out # NoCode) =>
        LET schema == probe.schema
            category == get_category(Schema_get_area(schema, probe.area_id),
                                     probe.category_id)
            scanned == category_dir(schema, category)
            fs == FiledIn(schema, probe.codes)
        IN  /\ Schema_validate_path(schema, probe.out)
            /\ contains(category, ItemValue(probe.out))
            /\ Schema_get_directory_path(schema, probe.out) = scanned
            /\ \A p \in DOMAIN fs :
                    (p[1] = scanned /\ from_file(fs, p).err = None)
                        => from_file(fs, p).id # probe.out


\* C38: a move that changes anything changes only the code and the directory
\* of the moved note: afterwards its file, under the same file name, holds
\* the same title, status, kind, tags, creation time and body, and every
\* other note's file and every other index entry is as before
C38_MoveFrame ==
    [][\A hash_id \in HashArgs, old_path \in OldCodes, new_jd_id \in NewCodes :
        (/\ Move(hash_id, old_path, new_jd_id, "add-raises")
         /\ (files' # files \/ index' # index)) =>
            LET h == CHOOSE h \in resolve(index, hash_id) : TRUE
                p == index[h].path
                q == <<get_directory_path(new_jd_id), p[2]>>
            IN  /\ q \in DOMAIN files'
                /\ files'[q].content = files[p].content
                /\ DOMAIN files'[q].metadata = DOMAIN files[p].metadata
                /\ \A k \in DOMAIN files[p].metadata \ {"id"} :
                        files'[q].metadata[k] = files[p].metadata[k]
                /\ \A r \in ((DOMAIN files) \cup (DOMAIN files')) \ {p, q} :
                        /\ r \in DOMAIN files
                        /\ r \in DOMAIN files'
                        /\ files'[r] = files[r]
                /\ DOMAIN index' = DOMAIN index
                /\ \A k \in DOMAIN index \ {h} : index'[k] = index[k]]_vars


(***************************************************************************)
(* Captures and moves on a store that holds one captured note              *)
(***************************************************************************)
NextProvisional ==
    \/ \E title \in Titles, full_uuid \in Uuids :
            Create(None, title, full_uuid, Uuid(NumUuids), "add-raises")
    \/ \E hash_id \in HashArgs, old_path \in OldCodes, new_jd_id \in LogTargets :
            Move(hash_id, old_path, new_jd_id, "add-raises")

SpecProvisional == InitCaptured /\ [][NextProvisional]_vars

\* C39: the notes that are in the inbox at the same time carry pairwise
\* distinct provisional codes, after any sequence of creates and moves
C39_InboxCodesDistinct ==
    \A p, q \in {r \in DOMAIN files : r[1] = Inbox} :
        p # q => files[p].metadata["id"] # files[q].metadata["id"]

====
